---- MODULE Spec2Model ----
(***************************************************************************)
(* A model of the rspamd fuzzy storage worker (src/src/fuzzy_storage.cxx): *)
(* the update pipeline of worker-0 and the peer pipe that feeds it, the    *)
(* leaky-bucket rate limiter, and the fate of a received datagram.         *)
(*                                                                         *)
(* The specifications share the variables:                                 *)
(*   SpecU  the update pipeline of worker 0 fed by its own clients,        *)
(*   SpecUF the same with a backend that answers every commit,             *)
(*   SpecP  the peer multiplexer: other workers forward to worker 0,       *)
(*   SpecW  all workers receive mutations, commits may fail and be retried,*)
(*   SpecR  the rate limiter as driven by CHECK requests,                  *)
(*   SpecL  the receive loop: one datagram from receipt to reply,          *)
(*   SpecC  the policy decisions of rspamd_fuzzy_process_command,          *)
(*   SpecS  the building of a reply and the statistics it updates,         *)
(*   SpecD  the lifetime of the session of a datagram.                     *)
(* A specification leaves the variables of the other parts unchanged.      *)
(***************************************************************************)
EXTENDS Integers, Sequences, FiniteSets, TLC

(***************************************************************************)
(* Bounds of the model.                                                    *)
(***************************************************************************)
\* Worker processes are 0 .. MaxWorker; worker 0 is the update worker.
MaxWorker == 1
\* Mutation commands produced in one run.
MaxCmds == 3
\* Datagrams the peer socket pair buffers before write() gives EWOULDBLOCK.
PipeCap == 1
\* Largest configured value of updates_maxfail.
MaxMaxfail == 1
\* Mutation commands produced in one run when every worker receives them.
MaxCmdsW == 2
\* Bucket levels are counted in units of 1/Scale of a request.
Scale == 2
\* Largest configured burst, in requests.
MaxBurst == 2
\* Largest configured leak rate, in level units per tick of the clock.
MaxRate == 2
\* The clock runs from 0 to MaxTime.
MaxTime == 3
\* Client networks (addresses after the bucket mask) are 1 .. MaxAddr.
MaxAddr == 1
\* CHECK requests in one run.
MaxChecks == 4
\* Client addresses seen by the receive loop are 1 .. MaxSrc.
MaxSrc == 2
\* Datagrams received in one run.
MaxDgrams == 3
\* Sessions created in one run of the session lifetime.
MaxSess == 3
\* Replies built in one run of the statistics.
MaxReplies == 2
\* Hash flags are 0 .. MaxFlag; 0 is the blanked flag.
MaxFlag == 1
\* A configured delay is 1 .. MaxDelay.
MaxDelay == 2
\* The age of a hash at its check is 0 .. MaxAge.
MaxAge == 4
\* KEY_STAT_INTERVAL (3600 s) in ticks of the clock.
StatInterval == 1
\* Mutations taken by the workers of a storage that may be read-only.
MaxCmdsO == 1

Workers == 0 .. MaxWorker
Cmds == 1 .. MaxCmds

VARIABLES
    \* ---- update pipeline and peer multiplexer ----
    updates_maxfail,   \* ctx->updates_maxfail (configuration)
    updates_pending,   \* ctx->updates_pending of each worker: sequence of commands
    updates_failed,    \* ctx->updates_failed of each worker
    transactions,      \* rspamd_updates_cbdata handed to the backend, not yet called back
    worker_state,      \* "running" | "final_sync" | "exited"
    peer_fd,           \* ctx->peer_fd of each worker: "none" (-1) | "open" | "closed"
    peer_pipe,         \* datagrams buffered in the socket pair towards worker 0
    produced,          \* produced[c]: the worker that received mutation c from a client
    send_status,       \* per command: how its fuzzy_peer_request stands
    \* ---- history of the pipeline (observers, never read by the program) ----
    commit_count,      \* per command: successful commits that contained it
    discard_count,     \* per command: discards that contained it
    fail_count,        \* per command: failed commit attempts that contained it
    fail_run,          \* failed callbacks since the last success or discard
    count_requests,    \* rspamd_fuzzy_backend_count calls made by commit callbacks
    cmd_budget,        \* mutations the clients send in this run
    \* ---- rate limiter ----
    leaky_bucket_burst,   \* ctx->leaky_bucket_burst, in level units
    leaky_bucket_rate,    \* ctx->leaky_bucket_rate, in level units per tick
    ratelimit_log_only,   \* ctx->ratelimit_log_only
    ratelimit_whitelist,  \* the networks matched by ctx->ratelimit_whitelist
    timestamp,            \* the clock a session reads into session->timestamp
    ratelimit_buckets,    \* ctx->ratelimit_buckets: network -> bucket
    checks_done,          \* CHECK requests processed so far
    last_check,           \* history: what the last CHECK request met and got
    \* ---- receive loop ----
    blocked_ips,          \* the addresses matched by ctx->blocked_ips
    dgrams,               \* the datagrams received so far and their fate
    invalid_requests,     \* ctx->stat.invalid_requests
    errors_ips,           \* ctx->errors_ips: decode errors per source address
    \* ---- command processing ----
    read_only,            \* ctx->read_only
    encrypted_only,       \* ctx->encrypted_only
    update_ips_set,       \* ctx->update_ips != nullptr
    update_keys_set,      \* ctx->update_keys != nullptr
    pre_handler,          \* ctx->lua_pre_handler_cbref != -1
    last_cmd,             \* history: the last request processed and its outcome
    \* ---- replies and statistics ----
    forbidden_ids,        \* fuzzy_key::forbidden_ids of the client's key
    key_stat,             \* session->key->stat
    key_avg,              \* last_checked_time and the snapshots of session->key->stat
    ip_stat,              \* session->ip_stat
    stat,                 \* ctx->stat (one epoch)
    replies_done,         \* replies built so far
    last_reply,           \* history: the last reply built and what it came from
    \* ---- session lifetime ----
    sessions,             \* the fuzzy_session of each datagram received
    \* ---- backend callback of a CHECK ----
    delay,                \* ctx->delay: NoDelay (NaN, not configured) or a number
    last_cb               \* history: the last callback and what it did

varsR == <<leaky_bucket_burst, leaky_bucket_rate, ratelimit_log_only,
           ratelimit_whitelist, timestamp, ratelimit_buckets, checks_done,
           last_check>>

varsL == <<blocked_ips, dgrams, invalid_requests, errors_ips>>

varsC == <<read_only, encrypted_only, update_ips_set, update_keys_set,
           pre_handler, last_cmd>>

varsS == <<forbidden_ids, key_stat, key_avg, ip_stat, stat, replies_done,
           last_reply>>

varsD == <<sessions>>

varsK == <<delay, last_cb>>

varsX == <<varsC, varsS, varsD, varsK>>

varsRL == <<varsR, varsL, varsX>>

varsU == <<cmd_budget, updates_maxfail, updates_pending, updates_failed, transactions,
           worker_state, peer_fd, peer_pipe, produced, send_status,
           commit_count, discard_count,
           fail_count, fail_run, count_requests>>

vars == <<varsU, varsR, varsL, varsC, varsS, varsD, varsK>>

(***************************************************************************)
(* Helpers on sequences.                                                   *)
(***************************************************************************)
Range(s) == {s[i] : i \in 1 .. Len(s)}

\* Number of positions of s that hold x.
Occurrences(s, x) == Cardinality({i \in 1 .. Len(s) : s[i] = x})

\* Number of positions over all in-flight transactions that hold x.
RECURSIVE InFlightOccurrences(_, _)
InFlightOccurrences(txs, x) ==
    IF txs = <<>> THEN 0
    ELSE Occurrences(Head(txs).updates, x) + InFlightOccurrences(Tail(txs), x)

\* s without its i-th element.
RemoveAt(s, i) == SubSeq(s, 1, i - 1) \o SubSeq(s, i + 1, Len(s))

Max(a, b) == IF a >= b THEN a ELSE b

(***************************************************************************)
(* worker->index == 0: the worker that owns the pending queue, the         *)
(* periodic drain and the final drain.                                     *)
(***************************************************************************)
IsUpdateWorker_any(w) == TRUE

IsUpdateWorker(w) == w = 0

(***************************************************************************)
(* rspamd_fuzzy_process_updates_queue: on a non-empty queue a new          *)
(* transaction takes the queue by swap and goes to the backend; on an      *)
(* empty queue a final drain breaks the event loop.  The result gives the  *)
(* queue and the in-flight transactions afterwards, whether a transaction  *)
(* was submitted and whether ev_break was called.                          *)
(***************************************************************************)
ProcessUpdatesQueue_head(w, q, txs, final) ==
    IF q # <<>>
    THEN [pending |-> Tail(q),
          txs |-> Append(txs, [by |-> w, updates |-> <<Head(q)>>,
                               final |-> final]),
          submitted |-> TRUE, brk |-> FALSE]
    ELSE [pending |-> q, txs |-> txs, submitted |-> FALSE, brk |-> final]

ProcessUpdatesQueue_copy(w, q, txs, final) ==
    IF q # <<>>
    THEN [pending |-> q,
          txs |-> Append(txs, [by |-> w, updates |-> q, final |-> final]),
          submitted |-> TRUE, brk |-> FALSE]
    ELSE [pending |-> q, txs |-> txs, submitted |-> FALSE, brk |-> final]

ProcessUpdatesQueue(w, q, txs, final) ==
    IF q # <<>>
    THEN [pending |-> <<>>,
          txs |-> Append(txs, [by |-> w, updates |-> q, final |-> final]),
          submitted |-> TRUE, brk |-> FALSE]
    ELSE [pending |-> q, txs |-> txs, submitted |-> FALSE, brk |-> final]

(***************************************************************************)
(* fuzzy_peer_try_send: a write() of one command to the peer socket; it    *)
(* succeeds when the other end is open and the socket buffer has room.     *)
(***************************************************************************)
PeerWriteSucceeds == peer_fd[0] = "open" /\ Len(peer_pipe) < PipeCap

\* The commands of worker w that wait in a write-readiness watcher.
Watchers(w) == {c \in 1 .. Len(produced) :
                    produced[c] = w /\ send_status[c] \in {"deferred", "ready"}}

(***************************************************************************)
(* The rate limiter's data.  A level is an integer number of 1/Scale; the  *)
(* NaN of the code is the flag nan (the level field is then kept at 0).    *)
(***************************************************************************)
Addrs == 1 .. MaxAddr

\* session->addr == NULL
NoAddr == 0

\* No bucket for the network in the LRU hash.
NoBucket == [present |-> FALSE, nan |-> FALSE, cur |-> 0, last |-> 0]

\* last_check before any CHECK request.
NoCheck == [addr |-> -1, present |-> FALSE, nan |-> FALSE, level |-> 0,
            ratelimited |-> FALSE, denied |-> FALSE, hook |-> 0]

\* The parts a specification does not drive stay as they are here.
IdleR ==
    /\ leaky_bucket_burst = 0
    /\ leaky_bucket_rate = 0
    /\ ratelimit_log_only = FALSE
    /\ ratelimit_whitelist = {}
    /\ timestamp = 0
    /\ ratelimit_buckets = [a \in Addrs |-> NoBucket]
    /\ checks_done = 0
    /\ last_check = NoCheck

IdleL ==
    /\ blocked_ips = {}
    /\ dgrams = <<>>
    /\ invalid_requests = 0
    /\ errors_ips = [s \in 1 .. MaxSrc |-> 0]

\* last_cmd before any request.
NoCmd == [cmd |-> "none", encrypted |-> FALSE, af |-> "none",
          ip_match |-> FALSE, key_match |-> FALSE, skip_match |-> FALSE,
          pre |-> "none", rl_allowed |-> TRUE,
          outcome |-> "none", value |-> 0, prob |-> 0,
          backend |-> FALSE, enqueued |-> FALSE,
          flag |-> 0, pre_flag |-> -1, ratelimit |-> FALSE,
          rep |-> [value |-> 0, prob |-> 0, flag |-> 0, ts |-> 0]]

IdleC ==
    /\ read_only = FALSE
    /\ encrypted_only = FALSE
    /\ update_ips_set = FALSE
    /\ update_keys_set = FALSE
    /\ pre_handler = FALSE
    /\ last_cmd = NoCmd

\* Counters of a key or of an address under a key.
ZeroStat == [checked |-> 0, matched |-> 0, errors |-> 0, added |-> 0,
             deleted |-> 0]

\* The moving-average state of a key as g_malloc0 leaves it: time is
\* last_checked_time, checked and matched the counts at the last snapshot,
\* updates the number of moving-average updates made.
ZeroAvg == [time |-> 0, checked |-> 0, matched |-> 0, updates |-> 0]

\* ctx->stat: hashes checked and found, delayed hashes.
ZeroGlobal == [checked |-> 0, found |-> 0, delayed |-> 0]

\* last_reply before any reply.
NoReply == [cmd |-> "none", encrypted |-> FALSE, has_key |-> FALSE,
            delayed |-> FALSE,
            found |-> [value |-> 0, prob |-> 0, flag |-> 0, ts |-> 0],
            rep |-> [value |-> 0, prob |-> 0, flag |-> 0, ts |-> 0]]

IdleS ==
    /\ forbidden_ids = {}
    /\ key_stat = ZeroStat
    /\ key_avg = ZeroAvg
    /\ ip_stat = ZeroStat
    /\ stat = ZeroGlobal
    /\ replies_done = 0
    /\ last_reply = NoReply

IdleD == sessions = <<>>

\* ctx->delay as init_fuzzy leaves it: NAN.
NoDelay == -1

\* last_cb before any callback.
NoCb == [w |-> 0, prob |-> 0, flag |-> 0, artificial |-> FALSE,
         whitelisted |-> FALSE, age |-> 0, delayed |-> FALSE,
         refresh |-> 0, post |-> "none", post_flag |-> -1, j2 |-> 0]

IdleK ==
    /\ delay = NoDelay
    /\ last_cb = NoCb

IdleX == IdleC /\ IdleS /\ IdleD /\ IdleK

(***************************************************************************)
(* Init: the state after init_fuzzy, start_fuzzy and fuzzy_peer_rep: every *)
(* worker holds its end of the socket pair and runs its event loop.        *)
(***************************************************************************)
InitPipeline(budget, maxfails) ==
    /\ cmd_budget = budget
    /\ updates_maxfail \in maxfails
    /\ updates_pending = [w \in Workers |-> <<>>]
    /\ updates_failed = [w \in Workers |-> 0]
    /\ transactions = <<>>
    /\ worker_state = [w \in Workers |-> "running"]
    /\ peer_fd = [w \in Workers |-> "open"]
    /\ peer_pipe = <<>>
    /\ produced = <<>>
    /\ send_status = [c \in Cmds |-> "none"]
    /\ commit_count = [c \in Cmds |-> 0]
    /\ discard_count = [c \in Cmds |-> 0]
    /\ fail_count = [c \in Cmds |-> 0]
    /\ fail_run = 0
    /\ count_requests = 0

(***************************************************************************)
(* rspamd_fuzzy_process_command, the branch of an accepted WRITE or DEL:   *)
(* worker 0 (or a worker without peer descriptor) appends the command to   *)
(* its own queue; another worker writes it to the peer socket and, when    *)
(* the write fails, starts a write-readiness watcher for it.               *)
(***************************************************************************)
\* Whether a write watcher is started for the request after the first write.
StartWatcher_always(sent) == TRUE

StartWatcher(sent) == ~sent

\* ctx->updates_pending->push_back: the command joins the tail of the queue.
EnqueueLocal_front(pending, c) == <<c>> \o pending

EnqueueLocal(pending, c) == Append(pending, c)

\* The effect of the branch on the pipeline of worker w.
ForwardOrEnqueue(w) ==
    /\ worker_state[w] = "running"
    /\ Len(produced) < cmd_budget
    /\ LET c == Len(produced) + 1 IN
       /\ produced' = Append(produced, w)
       /\ IF IsUpdateWorker(w) \/ peer_fd[w] = "none"
          THEN /\ updates_pending' =
                      [updates_pending EXCEPT ![w] = EnqueueLocal(@, c)]
               /\ send_status' = [send_status EXCEPT ![c] = "local"]
               /\ UNCHANGED peer_pipe
          ELSE LET sent == PeerWriteSucceeds IN
               /\ peer_pipe' = IF sent THEN Append(peer_pipe, c) ELSE peer_pipe
               /\ send_status' = [send_status EXCEPT ![c] =
                       IF StartWatcher(sent) THEN "deferred" ELSE "direct"]
               /\ UNCHANGED updates_pending
    /\ UNCHANGED <<cmd_budget, updates_maxfail, updates_failed, transactions, worker_state,
                   peer_fd, commit_count, discard_count, fail_count, fail_run, count_requests>>

ProcessMutation(w) == ForwardOrEnqueue(w) /\ UNCHANGED varsRL

(***************************************************************************)
(* The event loop of worker w polls the peer socket and finds it writable  *)
(* (or in error): every write watcher of w is queued to run.               *)
(***************************************************************************)
PeerWritable(w) ==
    /\ worker_state[w] = "running"
    /\ \E c \in Watchers(w) : send_status[c] = "deferred"
    /\ Len(peer_pipe) < PipeCap \/ peer_fd[0] # "open"
    /\ send_status' = [c \in Cmds |->
                          IF c \in Watchers(w) THEN "ready" ELSE send_status[c]]
    /\ UNCHANGED <<varsRL, cmd_budget, updates_maxfail, updates_pending, updates_failed, transactions,
                   worker_state, peer_fd, peer_pipe, produced, commit_count, discard_count,
                   fail_count, fail_run, count_requests>>

(***************************************************************************)
(* fuzzy_peer_send_io: the watcher of command c runs: one more write; the  *)
(* watcher is stopped and the request deleted whether it succeeded or not. *)
(***************************************************************************)
\* How the request stands once its watcher has run: ev_io_stop and delete
\* follow the write whatever it returned.
StatusAfterRetry_keep(sent) == IF sent THEN "retried" ELSE "deferred"

StatusAfterRetry(sent) == IF sent THEN "retried" ELSE "dropped"

FuzzyPeerSendIo(c) ==
    /\ c \in 1 .. Len(produced)
    /\ send_status[c] = "ready"
    /\ worker_state[produced[c]] = "running"
    /\ send_status' = [send_status EXCEPT ![c] = StatusAfterRetry(PeerWriteSucceeds)]
    /\ IF PeerWriteSucceeds
       THEN peer_pipe' = Append(peer_pipe, c)
       ELSE UNCHANGED peer_pipe
    /\ UNCHANGED <<varsRL, cmd_budget, updates_maxfail, updates_pending, updates_failed, transactions,
                   worker_state, peer_fd, produced, commit_count, discard_count, fail_count,
                   fail_run, count_requests>>

(***************************************************************************)
(* rspamd_fuzzy_peer_io: worker 0 reads commands from the peer socket      *)
(* until read() has no more, appending each to its pending queue.          *)
(***************************************************************************)
\* The pending queue after the commands read from the socket are appended.
AppendRead_front(pending, batch) == batch \o pending

AppendRead(pending, batch) == pending \o batch

RspamdFuzzyPeerIo ==
    /\ worker_state[0] = "running"
    /\ peer_fd[0] = "open"
    /\ peer_pipe # <<>>
    /\ updates_pending' =
           [updates_pending EXCEPT ![0] = AppendRead(@, peer_pipe)]
    /\ peer_pipe' = <<>>
    /\ UNCHANGED <<varsRL, cmd_budget, updates_maxfail, updates_failed, transactions, worker_state,
                   peer_fd, produced, send_status, commit_count, discard_count, fail_count, fail_run, count_requests>>

(***************************************************************************)
(* rspamd_fuzzy_storage_periodic_callback, registered with the backend by  *)
(* start_fuzzy for worker 0 only: drains a non-empty pending queue.        *)
(***************************************************************************)
PeriodicCallback(w) ==
    /\ IsUpdateWorker(w)
    /\ worker_state[w] \in {"running", "final_sync"}
    /\ updates_pending[w] # <<>>
    /\ LET r == ProcessUpdatesQueue(w, updates_pending[w], transactions, FALSE) IN
       /\ updates_pending' = [updates_pending EXCEPT ![w] = r.pending]
       /\ transactions' = r.txs
    /\ UNCHANGED <<varsRL, cmd_budget, updates_maxfail, updates_failed, worker_state, peer_fd,
                   peer_pipe, produced, send_status, commit_count, discard_count, fail_count,
                   fail_run, count_requests>>

(***************************************************************************)
(* rspamd_fuzzy_storage_sync: the SYNC control command; only worker 0      *)
(* drains its queue (and restarts the periodic drain), every worker        *)
(* answers.                                                                *)
(***************************************************************************)
StorageSync(w) ==
    /\ worker_state[w] \in {"running", "final_sync"}
    /\ IF IsUpdateWorker(w)
       THEN LET r == ProcessUpdatesQueue(w, updates_pending[w], transactions, FALSE) IN
            /\ updates_pending' = [updates_pending EXCEPT ![w] = r.pending]
            /\ transactions' = r.txs
       ELSE UNCHANGED <<updates_pending, transactions>>
    /\ UNCHANGED <<varsRL, cmd_budget, updates_maxfail, updates_failed, worker_state, peer_fd,
                   peer_pipe, produced, send_status, commit_count, discard_count, fail_count, fail_run, count_requests>>

(***************************************************************************)
(* start_fuzzy after the event loop has ended: the peer descriptor is      *)
(* closed; worker 0 with a non-empty queue starts the final drain and a    *)
(* second event loop; any other worker goes on to exit, and its write      *)
(* watchers die with it.                                                   *)
(***************************************************************************)
Shutdown(w) ==
    /\ worker_state[w] = "running"
    /\ peer_fd' = [peer_fd EXCEPT ![w] = "closed"]
    /\ send_status' = [c \in Cmds |->
                          IF c \in Watchers(w) THEN "dropped" ELSE send_status[c]]
    /\ IF IsUpdateWorker(w) /\ Len(updates_pending[w]) > 0
       THEN LET r == ProcessUpdatesQueue(w, updates_pending[w], transactions, TRUE) IN
            /\ updates_pending' = [updates_pending EXCEPT ![w] = r.pending]
            /\ transactions' = r.txs
            /\ worker_state' = [worker_state EXCEPT ![w] =
                                    IF r.submitted THEN "final_sync" ELSE "exited"]
       ELSE /\ worker_state' = [worker_state EXCEPT ![w] = "exited"]
            /\ UNCHANGED <<updates_pending, transactions>>
    /\ UNCHANGED <<varsRL, cmd_budget, updates_maxfail, updates_failed, peer_pipe, produced,
                   commit_count, discard_count,
                   fail_count, fail_run, count_requests>>

(***************************************************************************)
(* rspamd_fuzzy_updates_cb: the backend reports the outcome of the i-th    *)
(* in-flight transaction.                                                  *)
(*   success: updates_failed = 0; ev_break when the transaction is final   *)
(*            or the worker is no longer running;                          *)
(*   failure: ++updates_failed; above updates_maxfail the updates are      *)
(*            discarded and the counter reset (ev_break as above);         *)
(*            otherwise the updates are appended to the tail of the        *)
(*            pending queue and a final transaction is resubmitted at once.*)
(* The cbdata is deleted in every case.                                    *)
(***************************************************************************)
\* Whether ++updates_failed exceeds the limit.
FailuresExceeded_ge(failed, maxfail) == failed + 1 >= maxfail

FailuresExceeded_late(failed, maxfail) == failed + 1 > maxfail + 1

FailuresExceeded(failed, maxfail) == failed + 1 > maxfail

\* The pending queue after a failed transaction's updates are moved back.
RequeueFailed_drop(pending, updates) == pending

RequeueFailed_front(pending, updates) == updates \o pending

RequeueFailed(pending, updates) == pending \o updates

\* cbdata->final || ctx->worker->state != rspamd_worker_state_running
PlanExit_final(t) == t.final

PlanExit_never(t) == FALSE

PlanExit(t) == t.final \/ worker_state[t.by] # "running"

UpdatesCb(i, success) ==
    /\ i \in 1 .. Len(transactions)
    /\ LET t == transactions[i]
           w == t.by
           rest == RemoveAt(transactions, i)
           inT(c) == c \in Range(t.updates)
       IN
       /\ worker_state[w] \in {"running", "final_sync"}
       /\ IF success
          THEN /\ updates_failed' = [updates_failed EXCEPT ![w] = 0]
               /\ transactions' = rest
               /\ worker_state' = [worker_state EXCEPT ![w] =
                                      IF PlanExit(t) THEN "exited" ELSE @]
               /\ commit_count' = [c \in Cmds |->
                                      commit_count[c] + Occurrences(t.updates, c)]
               /\ fail_run' = 0
               /\ count_requests' = count_requests + 1
               /\ UNCHANGED <<updates_pending, discard_count,
                              fail_count>>
          ELSE /\ fail_count' = [c \in Cmds |->
                                    IF inT(c) THEN fail_count[c] + 1 ELSE fail_count[c]]
               /\ UNCHANGED <<commit_count, count_requests>>
               /\ IF FailuresExceeded(updates_failed[w], updates_maxfail)
                  THEN /\ updates_failed' = [updates_failed EXCEPT ![w] = 0]
                       /\ transactions' = rest
                       /\ worker_state' = [worker_state EXCEPT ![w] =
                                              IF PlanExit(t) THEN "exited" ELSE @]
                       /\ discard_count' = [c \in Cmds |->
                                discard_count[c] + Occurrences(t.updates, c)]
                       /\ fail_run' = 0
                       /\ UNCHANGED <<updates_pending>>
                  ELSE LET q == RequeueFailed(updates_pending[w], t.updates)
                           r == IF t.final
                                THEN ProcessUpdatesQueue(w, q, rest, t.final)
                                ELSE [pending |-> q, txs |-> rest,
                                      submitted |-> FALSE, brk |-> FALSE]
                       IN
                       /\ updates_failed' =
                              [updates_failed EXCEPT ![w] = @ + 1]
                       /\ updates_pending' =
                              [updates_pending EXCEPT ![w] = r.pending]
                       /\ transactions' = r.txs
                       /\ worker_state' = [worker_state EXCEPT ![w] =
                                              IF r.brk THEN "exited" ELSE @]
                       /\ fail_run' = fail_run + 1
                       /\ UNCHANGED discard_count
    /\ UNCHANGED <<varsRL, cmd_budget, updates_maxfail, peer_fd, peer_pipe, produced, send_status>>

(***************************************************************************)
(* SpecU: the update pipeline of worker 0 fed by its own clients.          *)
(***************************************************************************)
NextU ==
    \/ ProcessMutation(0)
    \/ PeriodicCallback(0)
    \/ StorageSync(0)
    \/ Shutdown(0)
    \/ \E i \in 1 .. MaxCmds, success \in BOOLEAN : UpdatesCb(i, success)

InitU == InitPipeline(MaxCmds, 0 .. MaxMaxfail) /\ IdleR /\ IdleL /\ IdleX

SpecU == InitU /\ [][NextU]_vars

\* The backend invokes the callback of every transaction it was given.
CommitCallback ==
    \E i \in 1 .. MaxCmds, success \in BOOLEAN : UpdatesCb(i, success)

\* SpecUF: SpecU with a backend that answers.
SpecUF == InitU /\ [][NextU]_vars /\ WF_vars(CommitCallback)

(***************************************************************************)
(* SpecP: the workers other than 0 receive the mutations and forward them  *)
(* over the peer socket; worker 0 reads them and runs its pipeline, which  *)
(* is configured with updates_maxfail = 0 (a failed commit is discarded;   *)
(* the retry path is covered by SpecU and SpecW).                          *)
(***************************************************************************)
NextP ==
    \/ \E w \in Workers \ {0} : ProcessMutation(w)
    \/ \E w \in Workers : PeerWritable(w)
    \/ \E c \in Cmds : FuzzyPeerSendIo(c)
    \/ RspamdFuzzyPeerIo
    \/ \E w \in Workers : PeriodicCallback(w)
    \/ \E w \in Workers : StorageSync(w)
    \/ \E w \in Workers : Shutdown(w)
    \/ \E i \in 1 .. MaxCmds, success \in BOOLEAN : UpdatesCb(i, success)

InitP == InitPipeline(MaxCmds, {0}) /\ IdleR /\ IdleL /\ IdleX

SpecP == InitP /\ [][NextP]_vars

(***************************************************************************)
(* SpecW: every worker receives mutations; commits may fail and be retried.*)
(***************************************************************************)
NextW ==
    \/ \E w \in Workers : ProcessMutation(w)
    \/ \E w \in Workers : PeerWritable(w)
    \/ \E c \in Cmds : FuzzyPeerSendIo(c)
    \/ RspamdFuzzyPeerIo
    \/ \E w \in Workers : PeriodicCallback(w)
    \/ \E w \in Workers : StorageSync(w)
    \/ \E w \in Workers : Shutdown(w)
    \/ \E i \in 1 .. MaxCmds, success \in BOOLEAN : UpdatesCb(i, success)

InitW == InitPipeline(MaxCmdsW, 0 .. MaxMaxfail) /\ IdleR /\ IdleL /\ IdleX

SpecW == InitW /\ [][NextW]_vars

(***************************************************************************)
(* rspamd_fuzzy_check_ratelimit, the update of a bucket that is present.   *)
(***************************************************************************)
\* The level after the leak since the last request: only when time has
\* advanced, and never below 0.
DecayLevel_noclamp(cur, last, ts, rate) ==
    IF last < ts THEN cur - rate * (ts - last) ELSE cur

DecayLevel(cur, last, ts, rate) ==
    IF last < ts THEN Max(0, cur - rate * (ts - last)) ELSE cur

\* A bucket found at NaN is ratelimited and left untouched; otherwise the
\* level decays, last becomes ts, and the level becomes NaN when it has
\* reached the burst or grows by one request when it has not.  The flag
\* ratelimited is set in the NaN branch only.
BucketAfterCheck_forgive(elt, ts, rate, burst) ==
    IF elt.nan /\ elt.last >= ts
    THEN [elt |-> elt, level |-> 0, ratelimited |-> TRUE]
    ELSE LET cur == IF elt.nan THEN 0
                    ELSE DecayLevel(elt.cur, elt.last, ts, rate) IN
         IF cur >= burst /\ ~elt.nan
         THEN [elt |-> [present |-> TRUE, nan |-> TRUE, cur |-> 0, last |-> ts],
               level |-> cur, ratelimited |-> FALSE]
         ELSE [elt |-> [present |-> TRUE, nan |-> FALSE, cur |-> cur + Scale,
                        last |-> ts],
               level |-> cur, ratelimited |-> FALSE]

BucketAfterCheck(elt, ts, rate, burst) ==
    IF elt.nan
    THEN [elt |-> elt, level |-> 0, ratelimited |-> TRUE]
    ELSE LET cur == DecayLevel(elt.cur, elt.last, ts, rate) IN
         IF cur >= burst
         THEN [elt |-> [present |-> TRUE, nan |-> TRUE, cur |-> 0, last |-> ts],
               level |-> cur, ratelimited |-> FALSE]
         ELSE [elt |-> [present |-> TRUE, nan |-> FALSE, cur |-> cur + Scale,
                        last |-> ts],
               level |-> cur, ratelimited |-> FALSE]

\* A new bucket: cur = 1, last = ts.
NewBucket(ts) == [present |-> TRUE, nan |-> FALSE, cur |-> Scale, last |-> ts]

(***************************************************************************)
(* rspamd_fuzzy_check_ratelimit for a session from network a at time ts:   *)
(* the buckets afterwards, what the lookup found, the verdict, and the     *)
(* number of calls of the blacklist hook with reason "ratelimit".          *)
(***************************************************************************)
RspamdFuzzyCheckRatelimit(a, ts) ==
    IF a = NoAddr \/ a \in ratelimit_whitelist
    THEN [buckets |-> ratelimit_buckets, present |-> FALSE, nan |-> FALSE,
          level |-> 0, ratelimited |-> FALSE, hook |-> 0]
    ELSE LET elt == ratelimit_buckets[a] IN
         IF elt.present
         THEN LET r == BucketAfterCheck(elt, ts, leaky_bucket_rate,
                                        leaky_bucket_burst) IN
              [buckets |-> [ratelimit_buckets EXCEPT ![a] = r.elt],
               present |-> TRUE, nan |-> elt.nan, level |-> r.level,
               ratelimited |-> r.ratelimited,
               hook |-> IF r.ratelimited THEN 1 ELSE 0]
         ELSE [buckets |-> [ratelimit_buckets EXCEPT ![a] = NewBucket(ts)],
               present |-> FALSE, nan |-> FALSE, level |-> 0,
               ratelimited |-> FALSE, hook |-> 0]

(***************************************************************************)
(* rspamd_fuzzy_process_command for a CHECK from network a: the limiter    *)
(* is consulted; in log-only mode its verdict is ignored; a request that   *)
(* may not continue is answered with value 403, any other goes to the      *)
(* backend.                                                                *)
(***************************************************************************)
\* can_continue: in log-only mode the limiter is called and its verdict
\* thrown away.
CanContinue_enforce(log_only, ratelimited) == ~ratelimited

CanContinue(log_only, ratelimited) == IF log_only THEN TRUE ELSE ~ratelimited

ProcessCheck(a) ==
    /\ checks_done < MaxChecks
    /\ LET r == RspamdFuzzyCheckRatelimit(a, timestamp)
           can_continue == CanContinue(ratelimit_log_only, r.ratelimited)
       IN
       /\ ratelimit_buckets' = r.buckets
       /\ last_check' = [addr |-> a, present |-> r.present, nan |-> r.nan,
                         level |-> r.level, ratelimited |-> r.ratelimited,
                         denied |-> ~can_continue, hook |-> r.hook]
    /\ checks_done' = checks_done + 1
    /\ UNCHANGED <<leaky_bucket_burst, leaky_bucket_rate, ratelimit_log_only,
                   ratelimit_whitelist, timestamp>>
    /\ UNCHANGED <<varsU, varsL, varsX>>

\* The event loop's clock advances.
Tick ==
    /\ timestamp < MaxTime
    /\ timestamp' = timestamp + 1
    /\ UNCHANGED <<leaky_bucket_burst, leaky_bucket_rate, ratelimit_log_only,
                   ratelimit_whitelist, ratelimit_buckets, checks_done,
                   last_check>>
    /\ UNCHANGED <<varsU, varsL, varsX>>

\* The LRU hash drops the bucket of network a: its TTL has expired at a
\* lookup, or an insertion into the full table has evicted it.
LruRemove(a) ==
    /\ ratelimit_buckets[a].present
    /\ ratelimit_buckets' = [ratelimit_buckets EXCEPT ![a] = NoBucket]
    /\ UNCHANGED <<leaky_bucket_burst, leaky_bucket_rate, ratelimit_log_only,
                   ratelimit_whitelist, timestamp, checks_done, last_check>>
    /\ UNCHANGED <<varsU, varsL, varsX>>

(***************************************************************************)
(* SpecR: CHECK requests against a configured rate limiter.                *)
(***************************************************************************)
InitR ==
    /\ leaky_bucket_burst \in 0 .. MaxBurst * Scale
    /\ leaky_bucket_rate \in 0 .. MaxRate
    /\ ratelimit_log_only \in BOOLEAN
    /\ ratelimit_whitelist \in {{}, {MaxAddr}}
    /\ timestamp = 0
    /\ ratelimit_buckets = [a \in Addrs |-> NoBucket]
    /\ checks_done = 0
    /\ last_check = NoCheck
    /\ InitPipeline(0, {0})
    /\ IdleL
    /\ IdleX

NextR ==
    \/ \E a \in Addrs \cup {NoAddr} : ProcessCheck(a)
    \/ Tick
    \/ \E a \in Addrs : LruRemove(a)

SpecR == InitR /\ [][NextR]_vars

(***************************************************************************)
(* The receive loop.                                                       *)
(***************************************************************************)
Sources == 1 .. MaxSrc

\* rspamd_fuzzy_check_client: a datagram without a usable source address
\* is not checked; an address matched by blocked_ips is refused.
ClientAllowed_all(src) == TRUE

ClientAllowed(src) == src = NoAddr \/ src \notin blocked_ips

\* rspamd_fuzzy_write_reply: the outcome of sendto decides: sent; or a
\* write watcher is started (EINTR, EWOULDBLOCK, EAGAIN); or the error is
\* logged and the reply is given up.
StageAfterSendto_giveup(sendres) ==
    CASE sendres = "ok" -> "replied"
      [] OTHER -> "reply_failed"

StageAfterSendto(sendres) ==
    CASE sendres = "ok" -> "replied"
      [] sendres = "again" -> "reply_wait"
      [] OTHER -> "reply_failed"

WriteReply(d, sendres) ==
    [d EXCEPT !.stage = StageAfterSendto(sendres),
              !.sent = IF sendres = "ok" THEN @ + 1 ELSE @]

\* The errors_ips counter of a source after a datagram that did not decode:
\* created at 1 when the lookup finds nothing, one more otherwise; nothing
\* for a datagram without source address.  (0 stands for no entry.)
CountError_restart(errs, src) ==
    IF src = NoAddr THEN errs ELSE [errs EXCEPT ![src] = 1]

CountError(errs, src) ==
    IF src = NoAddr THEN errs
    ELSE IF errs[src] = 0 THEN [errs EXCEPT ![src] = 1]
    ELSE [errs EXCEPT ![src] = @ + 1]

(***************************************************************************)
(* accept_fuzzy_socket for one received datagram: a refused client is      *)
(* skipped after the blacklist hook; a datagram that does not decode       *)
(* counts as an invalid request of its source; a command goes to           *)
(* rspamd_fuzzy_process_command, which either builds and writes the reply  *)
(* at once or hands a CHECK to the backend.                                *)
(***************************************************************************)
AcceptFuzzySocket(src, decodable, route, sendres) ==
    /\ Len(dgrams) < MaxDgrams
    /\ LET d0 == [src |-> src, decodable |-> decodable, stage |-> "new",
                  sent |-> 0, counted |-> 0, hook |-> 0]
       IN
       IF ~ClientAllowed(src)
       THEN /\ dgrams' = Append(dgrams, [d0 EXCEPT !.stage = "dropped",
                                                  !.hook = 1])
            /\ UNCHANGED <<invalid_requests, errors_ips>>
       ELSE IF ~decodable
       THEN /\ dgrams' = Append(dgrams, [d0 EXCEPT !.stage = "invalid",
                                                  !.counted = 1])
            /\ invalid_requests' = invalid_requests + 1
            /\ errors_ips' = CountError(errors_ips, src)
       ELSE IF route = "backend"
       THEN /\ dgrams' = Append(dgrams, [d0 EXCEPT !.stage = "backend"])
            /\ UNCHANGED <<invalid_requests, errors_ips>>
       ELSE /\ dgrams' = Append(dgrams, WriteReply(d0, sendres))
            /\ UNCHANGED <<invalid_requests, errors_ips>>
    /\ UNCHANGED <<blocked_ips, varsU, varsR, varsX>>

\* rspamd_fuzzy_check_callback: the backend has answered the CHECK of
\* datagram i; the reply is built and written.
CheckCallback(i, sendres) ==
    /\ i \in 1 .. Len(dgrams)
    /\ dgrams[i].stage = "backend"
    /\ dgrams' = [dgrams EXCEPT ![i] = WriteReply(@, sendres)]
    /\ UNCHANGED <<blocked_ips, invalid_requests, errors_ips, varsU, varsR,
                   varsX>>

\* rspamd_fuzzy_reply_io: the socket is writable again; the watcher is
\* stopped and the reply of datagram i written once more.
ReplyIo(i, sendres) ==
    /\ i \in 1 .. Len(dgrams)
    /\ dgrams[i].stage = "reply_wait"
    /\ dgrams' = [dgrams EXCEPT ![i] = WriteReply(@, sendres)]
    /\ UNCHANGED <<blocked_ips, invalid_requests, errors_ips, varsU, varsR,
                   varsX>>

(***************************************************************************)
(* SpecL: datagrams from receipt to reply.                                 *)
(***************************************************************************)
SendResults == {"ok", "again", "error"}

InitL ==
    /\ blocked_ips \in SUBSET Sources
    /\ dgrams = <<>>
    /\ invalid_requests = 0
    /\ errors_ips = [s \in Sources |-> 0]
    /\ InitPipeline(0, {0})
    /\ IdleR
    /\ IdleX

NextL ==
    \/ \E src \in Sources \cup {NoAddr}, decodable \in BOOLEAN,
          route \in {"backend", "reply"}, sendres \in SendResults :
              AcceptFuzzySocket(src, decodable, route, sendres)
    \/ \E i \in 1 .. MaxDgrams, sendres \in SendResults :
              CheckCallback(i, sendres)
    \/ \E i \in 1 .. MaxDgrams, sendres \in SendResults : ReplyIo(i, sendres)

SpecL == InitL /\ [][NextL]_vars

(***************************************************************************)
(* rspamd_fuzzy_check_write: may this session modify the storage?  The     *)
(* result is the set of outcomes the code can produce.  With update_ips    *)
(* configured and a client address present the address alone decides, and  *)
(* update_keys is not consulted.  Otherwise update_keys decides; the test  *)
(* reads session->key->key, and session->key is null for a plaintext       *)
(* command: that read is undefined behaviour (a crash, or either verdict). *)
(***************************************************************************)
RspamdFuzzyCheckWrite_rw(ro, ips_set, keys_set, af, ip_match, has_key, key_match) ==
    IF ips_set /\ af # "none"
    THEN IF af = "unix" THEN {"allow"}
         ELSE IF ip_match THEN {"allow"} ELSE {"deny"}
    ELSE IF keys_set
    THEN IF ~has_key THEN {"allow", "deny", "crash"}
         ELSE IF key_match THEN {"allow"} ELSE {"deny"}
    ELSE {"deny"}

RspamdFuzzyCheckWrite(ro, ips_set, keys_set, af, ip_match, has_key, key_match) ==
    IF ro THEN {"deny"}
    ELSE IF ips_set /\ af # "none"
    THEN IF af = "unix" THEN {"allow"}
         ELSE IF ip_match THEN {"allow"} ELSE {"deny"}
    ELSE IF keys_set
    THEN IF ~has_key THEN {"allow", "deny", "crash"}
         ELSE IF key_match THEN {"allow"} ELSE {"deny"}
    ELSE {"deny"}

\* A reply with ts, prob and value blanked; the flag stays.
BlankDelayed(rep) == [rep EXCEPT !.ts = 0, !.prob = 0, !.value = 0]

\* A reply blanked for a forbidden flag: the flag is cleared as well.
BlankForbidden(rep) ==
    [rep EXCEPT !.ts = 0, !.prob = 0, !.value = 0, !.flag = 0]

(***************************************************************************)
(* rspamd_fuzzy_make_reply, the reply before encryption: a delayed reply   *)
(* is blanked first; then, for an encrypted reply that still has prob > 0  *)
(* and whose flag is forbidden for the key, everything is blanked.         *)
(***************************************************************************)
ReplyBody(found, delayed, encrypted, has_key, forbidden) ==
    LET rep == IF delayed THEN BlankDelayed(found) ELSE found
    IN  IF encrypted /\ rep.prob > 0 /\ has_key /\ rep.flag \in forbidden
        THEN BlankForbidden(rep)
        ELSE rep

\* What a step of rspamd_fuzzy_process_command leaves behind: the branch
\* taken, the reply's value and prob, whether the backend was asked to check
\* and whether the command was queued (locally or through the peer socket).
CmdResult(o, v, p, b, e) ==
    [outcome |-> o, value |-> v, prob |-> p, backend |-> b, enqueued |-> e]

\* What a call of the Lua pre-handler can give: false ("none"), an error
\* of lua_pcall ("fail"), or an artificial reply (true, value, prob).
PreReplies == {"none", "fail", "hit", "deny"}

\* The flag a handler may return after value and prob (-1: none returned).
PreFlags == -1 .. MaxFlag

\* The handler's call succeeded and its first value is true.
ArtificialReply_onfail(pre) == pre # "none"

ArtificialReply(pre) == pre \in {"hit", "deny"}

PreReplyValue(pre) == IF pre = "hit" THEN 0 ELSE 403

PreReplyProb(pre) == IF pre = "hit" THEN 1 ELSE 0

\* The branch of a WRITE or DEL after rspamd_fuzzy_check_write: a permitted
\* WRITE of a digest in skip_hashes is answered 401 before anything is
\* queued; a permitted command is queued and answered 0 / 1.0; a command
\* without permission is answered 403.
WriteBranch_skiplate(verdict, cmd, skip_match) ==
    IF verdict = "allow"
    THEN IF cmd = "WRITE" /\ skip_match
         THEN CmdResult("skip_hash", 401, 0, FALSE, TRUE)
         ELSE CmdResult("accepted", 0, 1, FALSE, TRUE)
    ELSE CmdResult("write_forbidden", 403, 0, FALSE, FALSE)

WriteBranch(verdict, cmd, skip_match) ==
    IF verdict = "allow"
    THEN IF cmd = "WRITE" /\ skip_match
         THEN CmdResult("skip_hash", 401, 0, FALSE, FALSE)
         ELSE CmdResult("accepted", 0, 1, FALSE, TRUE)
    ELSE CmdResult("write_forbidden", 403, 0, FALSE, FALSE)

\* The results rspamd_fuzzy_process_command can have for one request, in the
\* order of the code: the pre-handler's artificial reply, the encrypted_only
\* test, then the command: CHECK through the rate limiter to the backend,
\* STAT, and WRITE or DEL through the permission test.
CommandResults(cmd, encrypted, af, ip_match, key_match, skip_match, pre, rl_allowed) ==
    IF pre_handler /\ ArtificialReply(pre)
    THEN {CmdResult("pre_reply", PreReplyValue(pre), PreReplyProb(pre),
                    FALSE, FALSE)}
    ELSE IF encrypted_only /\ ~encrypted
    THEN {CmdResult("encrypted_only", 403, 0, FALSE, FALSE)}
    ELSE IF cmd = "CHECK"
    THEN IF rl_allowed
         THEN {CmdResult("backend", 0, 0, TRUE, FALSE)}
         ELSE {CmdResult("ratelimit", 403, 0, FALSE, FALSE)}
    ELSE IF cmd = "STAT"
    THEN {CmdResult("stat", 0, 1, FALSE, FALSE)}
    ELSE {IF verdict = "crash"
          THEN CmdResult("crash", 0, 0, FALSE, FALSE)
          ELSE WriteBranch(verdict, cmd, skip_match) :
            verdict \in RspamdFuzzyCheckWrite(read_only, update_ips_set,
                            update_keys_set, af, ip_match, encrypted,
                            key_match)}

\* The result handed to rspamd_fuzzy_make_reply for an artificial reply:
\* zeroed, then the flag of the command, then the handler's value and prob
\* (last_cmd.rep is the body of that reply; the other branches leave it).
ResultOf(r, flag) == [value |-> r.value, prob |-> r.prob, flag |-> flag, ts |-> 0]

\* rspamd_fuzzy_check_ratelimit is called in the CHECK branch only.
RatelimitConsulted(outcome) == outcome \in {"backend", "ratelimit"}

\* rspamd_fuzzy_process_command on one decoded request.  The request is
\* given by its command, whether it was encrypted (only then the session
\* has a key), the family of the client address, whether the address is in
\* update_ips, the key in update_keys and the digest in skip_hashes, what
\* the pre-handler returns and what the rate limiter would say.
RspamdFuzzyProcessCommand(cmd, flag, encrypted, af, ip_match, key_match, skip_match, pre, pre_flag, rl_allowed) ==
    /\ last_cmd.outcome # "crash"
    /\ pre_flag # -1 => pre \in {"hit", "deny"}
    /\ ip_match => (update_ips_set /\ af = "inet")
    /\ key_match => (update_keys_set /\ encrypted)
    /\ skip_match => cmd = "WRITE"
    /\ pre # "none" => pre_handler
    /\ ~rl_allowed => cmd = "CHECK"
    /\ \E r \in CommandResults(cmd, encrypted, af, ip_match, key_match,
                               skip_match, pre, rl_allowed) :
           last_cmd' = [cmd |-> cmd, encrypted |-> encrypted, af |-> af,
                        ip_match |-> ip_match, key_match |-> key_match,
                        skip_match |-> skip_match, pre |-> pre,
                        rl_allowed |-> rl_allowed,
                        outcome |-> r.outcome, value |-> r.value,
                        prob |-> r.prob, backend |-> r.backend,
                        enqueued |-> r.enqueued,
                        flag |-> flag, pre_flag |-> pre_flag,
                        ratelimit |-> RatelimitConsulted(r.outcome),
                        rep |-> IF r.outcome = "pre_reply"
                                THEN ReplyBody(ResultOf(r, flag), FALSE,
                                               encrypted, encrypted,
                                               forbidden_ids)
                                ELSE NoCmd.rep]
    /\ UNCHANGED <<read_only, encrypted_only, update_ips_set,
                   update_keys_set, pre_handler, varsU, varsR, varsL,
                   varsS, varsD, varsK>>

(***************************************************************************)
(* SpecC: requests processed under every configuration.                    *)
(***************************************************************************)
CmdTypes == {"CHECK", "STAT", "WRITE", "DEL"}

AddrFamilies == {"none", "unix", "inet"}

InitC ==
    /\ read_only \in BOOLEAN
    /\ encrypted_only \in BOOLEAN
    /\ update_ips_set \in BOOLEAN
    /\ update_keys_set \in BOOLEAN
    /\ pre_handler \in BOOLEAN
    /\ last_cmd = NoCmd
    /\ InitPipeline(0, {0})
    /\ IdleR
    /\ IdleL
    /\ IdleS
    /\ IdleD
    /\ IdleK

NextC ==
    \E cmd \in CmdTypes, encrypted \in BOOLEAN, af \in AddrFamilies,
       ip_match \in BOOLEAN, key_match \in BOOLEAN, skip_match \in BOOLEAN,
       pre \in PreReplies, rl_allowed \in BOOLEAN :
          RspamdFuzzyProcessCommand(cmd, 0, encrypted, af, ip_match,
                                    key_match, skip_match, pre, -1,
                                    rl_allowed)

SpecC == InitC /\ [][NextC]_vars

(***************************************************************************)
(* SpecH: one request with a flag, processed under every configuration and *)
(* every set of flags forbidden for the key, by a pre-handler that may     *)
(* return a flag of its own.                                               *)
(***************************************************************************)
InitH ==
    /\ read_only \in BOOLEAN
    /\ encrypted_only \in BOOLEAN
    /\ update_ips_set \in BOOLEAN
    /\ update_keys_set \in BOOLEAN
    /\ pre_handler \in BOOLEAN
    /\ last_cmd = NoCmd
    /\ forbidden_ids \in SUBSET (1 .. MaxFlag)
    /\ key_stat = ZeroStat
    /\ key_avg = ZeroAvg
    /\ ip_stat = ZeroStat
    /\ stat = ZeroGlobal
    /\ replies_done = 0
    /\ last_reply = NoReply
    /\ InitPipeline(0, {0})
    /\ IdleR
    /\ IdleL
    /\ IdleD
    /\ IdleK

NextH ==
    /\ last_cmd = NoCmd
    /\ \E cmd \in CmdTypes, flag \in 0 .. MaxFlag, encrypted \in BOOLEAN,
          af \in AddrFamilies, ip_match \in BOOLEAN, key_match \in BOOLEAN,
          skip_match \in BOOLEAN, pre \in PreReplies, pre_flag \in PreFlags,
          rl_allowed \in BOOLEAN :
             RspamdFuzzyProcessCommand(cmd, flag, encrypted, af, ip_match,
                                       key_match, skip_match, pre, pre_flag,
                                       rl_allowed)

SpecH == InitH /\ [][NextH]_vars

(***************************************************************************)
(* rspamd_fuzzy_update_stats, the part for one fuzzy_generic_stat (a key's *)
(* or an address's): an unmatched reply with a non-zero value counts as an *)
(* error; otherwise a CHECK counts as checked, and as matched when it      *)
(* matched, a WRITE as added and a DEL as deleted.  (The per-minute        *)
(* averages derived from the counters are left out.)                       *)
(***************************************************************************)
UpdateGenericStat_anyerror(st, cmd, matched, value) ==
    IF value # 0
    THEN [st EXCEPT !.errors = @ + 1]
    ELSE IF cmd = "CHECK"
         THEN [st EXCEPT !.checked = @ + 1,
                         !.matched = IF matched THEN @ + 1 ELSE @]
         ELSE IF cmd = "WRITE"
         THEN [st EXCEPT !.added = @ + 1]
         ELSE IF cmd = "DEL"
         THEN [st EXCEPT !.deleted = @ + 1]
         ELSE st

UpdateGenericStat_anymatch(st, cmd, matched, value) ==
    IF ~matched /\ value # 0
    THEN [st EXCEPT !.errors = @ + 1]
    ELSE LET m == IF matched THEN 1 ELSE 0
         IN  IF cmd = "CHECK"
             THEN [st EXCEPT !.checked = @ + 1, !.matched = @ + m]
             ELSE IF cmd = "WRITE"
             THEN [st EXCEPT !.added = @ + 1, !.matched = @ + m]
             ELSE IF cmd = "DEL"
             THEN [st EXCEPT !.deleted = @ + 1, !.matched = @ + m]
             ELSE st

UpdateGenericStat(st, cmd, matched, value) ==
    IF ~matched /\ value # 0
    THEN [st EXCEPT !.errors = @ + 1]
    ELSE IF cmd = "CHECK"
         THEN [st EXCEPT !.checked = @ + 1,
                         !.matched = IF matched THEN @ + 1 ELSE @]
         ELSE IF cmd = "WRITE"
         THEN [st EXCEPT !.added = @ + 1]
         ELSE IF cmd = "DEL"
         THEN [st EXCEPT !.deleted = @ + 1]
         ELSE st

\* rspamd_fuzzy_update_stats, the moving averages of the key after a CHECK
\* that was counted as checked (st is the key's counters after it): the
\* first one sets last_checked_time and takes the snapshot; one later than
\* KEY_STAT_INTERVAL after it feeds the averages and takes a new snapshot.
UpdateKeyAverages_noinit(avg, st, cmd, matched, value, ts) ==
    IF (~matched /\ value # 0) \/ cmd # "CHECK"
    THEN avg
    ELSE IF avg.time # 0 /\ ts > avg.time + StatInterval
    THEN [time |-> ts, checked |-> st.checked, matched |-> st.matched,
          updates |-> avg.updates + 1]
    ELSE avg

UpdateKeyAverages(avg, st, cmd, matched, value, ts) ==
    IF (~matched /\ value # 0) \/ cmd # "CHECK"
    THEN avg
    ELSE IF avg.time = 0
    THEN [time |-> ts, checked |-> st.checked, matched |-> st.matched,
          updates |-> avg.updates]
    ELSE IF ts > avg.time + StatInterval
    THEN [time |-> ts, checked |-> st.checked, matched |-> st.matched,
          updates |-> avg.updates + 1]
    ELSE avg

\* rspamd_fuzzy_update_stats, the counters of ctx->stat for the epoch of the
\* session (the count of shingle requests is left out).
UpdateGlobalStat(st, matched, is_delayed) ==
    [checked  |-> st.checked + 1,
     found    |-> IF matched THEN st.found + 1 ELSE st.found,
     delayed  |-> IF is_delayed THEN st.delayed + 1 ELSE st.delayed]

\* result->v1.prob > 0.5 with prob 0 or 1.
Matched(prob) == 2 * prob > 1

\* The results a reply is built from: an error or policy value with prob 0,
\* or a hit with prob 1, with the flag of the hash and its timestamp.
FoundResults ==
    [value : {0, 403}, prob : {0, 1}, flag : 0 .. MaxFlag, ts : {1}]

(***************************************************************************)
(* rspamd_fuzzy_make_reply for a command: the statistics are updated from  *)
(* the result as found, then the reply is built and written.  Only a       *)
(* session of an encrypted command has a key; ip_stat is set for a session *)
(* with key and address that got past the pre-handler; only the backend    *)
(* callback of a CHECK marks a reply as delayed.                           *)
(***************************************************************************)
MakeReply(cmd, encrypted, has_ip, delayed, found) ==
    /\ replies_done < MaxReplies
    /\ has_ip => encrypted
    /\ delayed => cmd = "CHECK"
    /\ LET matched == Matched(found.prob)
       IN  /\ stat' = UpdateGlobalStat(stat, matched, delayed)
           /\ key_stat' = IF encrypted
                          THEN UpdateGenericStat(key_stat, cmd, matched,
                                                 found.value)
                          ELSE key_stat
           /\ key_avg' = IF encrypted
                         THEN UpdateKeyAverages(key_avg, key_stat', cmd,
                                                matched, found.value,
                                                timestamp)
                         ELSE key_avg
           /\ ip_stat' = IF has_ip
                         THEN UpdateGenericStat(ip_stat, cmd, matched,
                                                found.value)
                         ELSE ip_stat
    /\ last_reply' = [cmd |-> cmd, encrypted |-> encrypted,
                      has_key |-> encrypted, delayed |-> delayed,
                      found |-> found,
                      rep |-> ReplyBody(found, delayed, encrypted, encrypted,
                                        forbidden_ids)]
    /\ replies_done' = replies_done + 1
    /\ UNCHANGED forbidden_ids

\* A reply built for a request that changes nothing else.
RspamdFuzzyMakeReply(cmd, encrypted, has_ip, delayed, found) ==
    /\ MakeReply(cmd, encrypted, has_ip, delayed, found)
    /\ UNCHANGED <<varsU, varsR, varsL, varsC, varsD, varsK>>

(***************************************************************************)
(* SpecE: replies to the clients of one key while the clock advances: the  *)
(* moving averages of the key.                                             *)
(***************************************************************************)
InitE ==
    /\ forbidden_ids = {}
    /\ key_stat = ZeroStat
    /\ key_avg = ZeroAvg
    /\ ip_stat = ZeroStat
    /\ stat = ZeroGlobal
    /\ replies_done = 0
    /\ last_reply = NoReply
    /\ leaky_bucket_burst = 0
    /\ leaky_bucket_rate = 0
    /\ ratelimit_log_only = FALSE
    /\ ratelimit_whitelist = {}
    /\ timestamp = 1
    /\ ratelimit_buckets = [a \in Addrs |-> NoBucket]
    /\ checks_done = 0
    /\ last_check = NoCheck
    /\ InitPipeline(0, {0})
    /\ IdleL
    /\ IdleC
    /\ IdleD
    /\ IdleK

NextE ==
    \/ \E cmd \in CmdTypes, encrypted \in BOOLEAN, found \in FoundResults :
          RspamdFuzzyMakeReply(cmd, encrypted, FALSE, FALSE, found)
    \/ Tick

SpecE == InitE /\ [][NextE]_vars

(***************************************************************************)
(* A reply from its construction to the socket.  rspamd_fuzzy_make_reply   *)
(* copies the result into session->reply, updates the statistics, blanks   *)
(* and encrypts the reply in place and calls rspamd_fuzzy_write_reply,     *)
(* which hands session->reply to sendto.  When sendto fails with EAGAIN,   *)
(* EWOULDBLOCK or EINTR a write watcher is started, and its handler        *)
(* rspamd_fuzzy_reply_io calls rspamd_fuzzy_write_reply again.  A request  *)
(* keeps the number of times its reply was built, the reply, whether a     *)
(* send was ever deferred, and what the successful sendto was given.       *)
(***************************************************************************)
NoBody == [value |-> -1, prob |-> -1, flag |-> -1, ts |-> -1]

\* rspamd_fuzzy_write_reply: session->reply goes to sendto.
SendBuilt(d, sendres) ==
    [WriteReply(d, sendres) EXCEPT
        !.wire = IF sendres = "ok" THEN d.reply ELSE @,
        !.deferred = @ \/ sendres = "again"]

\* rspamd_fuzzy_make_reply for a request from an admitted client.
BuildAndSendReply(cmd, encrypted, has_ip, found, sendres) ==
    /\ Len(dgrams) < MaxDgrams
    /\ MakeReply(cmd, encrypted, has_ip, FALSE, found)
    /\ LET d0 == [src |-> NoAddr, decodable |-> TRUE, stage |-> "new",
                  sent |-> 0, counted |-> 0, hook |-> 0,
                  built |-> 1, reply |-> last_reply'.rep,
                  deferred |-> FALSE, wire |-> NoBody]
       IN  dgrams' = Append(dgrams, SendBuilt(d0, sendres))
    /\ UNCHANGED <<blocked_ips, invalid_requests, errors_ips, varsU, varsR,
                   varsC, varsD, varsK>>

\* rspamd_fuzzy_reply_io: the watcher is stopped and the reply written
\* once more.
RetryReply_rebuild(i, sendres) ==
    /\ i \in 1 .. Len(dgrams)
    /\ dgrams[i].stage = "reply_wait"
    /\ dgrams' = [dgrams EXCEPT ![i] = SendBuilt([@ EXCEPT !.built = 2],
                                                 sendres)]
    /\ stat' = UpdateGlobalStat(stat, Matched(dgrams[i].reply.prob), FALSE)
    /\ UNCHANGED <<blocked_ips, invalid_requests, errors_ips, varsU, varsR,
                   varsC, varsD, varsK, forbidden_ids, key_stat, key_avg,
                   ip_stat, replies_done, last_reply>>

RetryReply(i, sendres) ==
    /\ i \in 1 .. Len(dgrams)
    /\ dgrams[i].stage = "reply_wait"
    /\ dgrams' = [dgrams EXCEPT ![i] = SendBuilt(@, sendres)]
    /\ UNCHANGED <<blocked_ips, invalid_requests, errors_ips, varsU, varsR,
                   varsX>>

(***************************************************************************)
(* SpecQ: replies that are built, sent, deferred and retried.              *)
(***************************************************************************)
InitQ ==
    /\ blocked_ips = {}
    /\ dgrams = <<>>
    /\ invalid_requests = 0
    /\ errors_ips = [s \in Sources |-> 0]
    /\ IdleS
    /\ InitPipeline(0, {0})
    /\ IdleR
    /\ IdleC
    /\ IdleD
    /\ IdleK

NextQ ==
    \/ \E cmd \in {"CHECK", "WRITE"}, encrypted \in BOOLEAN,
          found \in {f \in FoundResults : f.flag = 0 /\ f.value = 0},
          sendres \in SendResults :
              BuildAndSendReply(cmd, encrypted, encrypted, found, sendres)
    \/ \E i \in 1 .. MaxDgrams, sendres \in SendResults :
              RetryReply(i, sendres)

SpecQ == InitQ /\ [][NextQ]_vars

(***************************************************************************)
(* SpecS: replies built for the clients of one key.                        *)
(***************************************************************************)
InitS ==
    /\ forbidden_ids \in SUBSET (1 .. MaxFlag)
    /\ key_stat = ZeroStat
    /\ key_avg = ZeroAvg
    /\ ip_stat = ZeroStat
    /\ stat = ZeroGlobal
    /\ replies_done = 0
    /\ last_reply = NoReply
    /\ InitPipeline(0, {0})
    /\ IdleR
    /\ IdleL
    /\ IdleC
    /\ IdleD
    /\ IdleK

NextS ==
    \E cmd \in CmdTypes, encrypted \in BOOLEAN, has_ip \in BOOLEAN,
       delayed \in BOOLEAN, found \in FoundResults :
          RspamdFuzzyMakeReply(cmd, encrypted, has_ip, delayed, found)

SpecS == InitS /\ [][NextS]_vars

(***************************************************************************)
(* The lifetime of a fuzzy_session: its reference count, the shared secret *)
(* nm and its memory.                                                      *)
(***************************************************************************)
\* rspamd_fuzzy_write_reply, the session's references: the write watcher
\* started after EINTR, EWOULDBLOCK or EAGAIN retains the session.
RefsAfterWrite_noretain(refs, sendres) == refs

RefsAfterWrite(refs, sendres) == IF sendres = "again" THEN refs + 1 ELSE refs

\* fuzzy_session_destroy: the shared secret is wiped, then the session is
\* freed.
FuzzySessionDestroy_nowipe(s) == [s EXCEPT !.freed = TRUE, !.destroys = @ + 1]

FuzzySessionDestroy(s) ==
    [s EXCEPT !.nm = "zero", !.freed = TRUE, !.destroys = @ + 1]

\* REF_RELEASE (session): one reference less; the last one destroys.
RefRelease(s) ==
    IF s.refs <= 1
    THEN FuzzySessionDestroy([s EXCEPT !.refs = 0])
    ELSE [s EXCEPT !.refs = @ - 1]

\* rspamd_fuzzy_write_reply as the session sees it.
SessionWriteReply(s, sendres) ==
    [s EXCEPT !.stage = StageAfterSendto(sendres),
              !.refs = RefsAfterWrite(@, sendres),
              !.errno = sendres,
              !.deferred = @ \/ sendres = "again"]

(***************************************************************************)
(* accept_fuzzy_socket for a datagram of an admitted client: the session   *)
(* is allocated zeroed with one reference and the datagram decoded; nm     *)
(* holds a shared secret when the decryption succeeded, also when a later  *)
(* step of the decoding failed.  A datagram that does not decode is        *)
(* discarded; a CHECK for the backend retains the session; any other       *)
(* command is answered at once.  The handler ends by releasing its         *)
(* reference.                                                              *)
(***************************************************************************)
SessionAccept(decodable, keyed, route, sendres) ==
    /\ Len(sessions) < MaxSess
    /\ LET s0 == [stage |-> "new", keyed |-> keyed, refs |-> 1,
                  nm |-> IF keyed THEN "secret" ELSE "zero",
                  freed |-> FALSE, destroys |-> 0, errno |-> "none",
                  deferred |-> FALSE]
       IN  sessions' = Append(sessions,
               IF ~decodable
               THEN RefRelease([s0 EXCEPT !.stage = "invalid"])
               ELSE IF route = "backend"
               THEN RefRelease([s0 EXCEPT !.stage = "backend",
                                          !.refs = @ + 1])
               ELSE RefRelease(SessionWriteReply(s0, sendres)))
    /\ UNCHANGED <<varsU, varsR, varsL, varsC, varsS, varsK>>

\* rspamd_fuzzy_check_callback: the reply is built and written, then the
\* reference taken for the backend is released.
SessionCheckCallback(i, sendres) ==
    /\ i \in 1 .. Len(sessions)
    /\ sessions[i].stage = "backend"
    /\ sessions' = [sessions EXCEPT
                       ![i] = RefRelease(SessionWriteReply(@, sendres))]
    /\ UNCHANGED <<varsU, varsR, varsL, varsC, varsS, varsK>>

\* rspamd_fuzzy_reply_io: the watcher is stopped, the reply written once
\* more, and the watcher's reference released.
SessionReplyIo(i, sendres) ==
    /\ i \in 1 .. Len(sessions)
    /\ sessions[i].stage = "reply_wait"
    /\ sessions' = [sessions EXCEPT
                       ![i] = RefRelease(SessionWriteReply(@, sendres))]
    /\ UNCHANGED <<varsU, varsR, varsL, varsC, varsS, varsK>>

InitD ==
    /\ sessions = <<>>
    /\ InitPipeline(0, {0})
    /\ IdleR
    /\ IdleL
    /\ IdleC
    /\ IdleS
    /\ IdleK

NextD ==
    \/ \E decodable \in BOOLEAN, keyed \in BOOLEAN,
          route \in {"backend", "reply"}, sendres \in SendResults :
              SessionAccept(decodable, keyed, route, sendres)
    \/ \E i \in 1 .. MaxSess, sendres \in SendResults :
              SessionCheckCallback(i, sendres)
    \/ \E i \in 1 .. MaxSess, sendres \in SendResults :
              SessionReplyIo(i, sendres)

SpecD == InitD /\ [][NextD]_vars

\* The event loop calls the write watcher of a session once the socket is
\* writable; the fairness condition adds that the send then succeeds unless
\* it fails for good first.
WatcherSends == \E i \in 1 .. MaxSess : SessionReplyIo(i, "ok")

SpecDF == InitD /\ [][NextD]_vars /\ WF_vars(WatcherSends)

(***************************************************************************)
(* rspamd_fuzzy_check_callback: the backend answers a CHECK in worker w.   *)
(* A post-handler that returns true replaces value, prob and (if it gives  *)
(* one) flag of the result; that artificial reply is sent at once.         *)
(* Otherwise the reply is marked as delayed when a delay is configured,    *)
(* the source is not in delay_whitelist and the hash is younger than the   *)
(* jittered delay; a hash found with strong confidence is refreshed; then  *)
(* the reply is built.                                                     *)
(***************************************************************************)
\* What a call of the Lua post-handler can give, as for the pre-handler.
PostReplies == {"none", "fail", "hit", "deny"}

\* The result after the post-handler's artificial reply.
PostResult_noflag(found, post, post_flag) ==
    [found EXCEPT !.value = PreReplyValue(post), !.prob = PreReplyProb(post)]

PostResult(found, post, post_flag) ==
    [found EXCEPT !.value = PreReplyValue(post), !.prob = PreReplyProb(post),
                  !.flag = IF post_flag # -1 THEN post_flag ELSE @]

\* rspamd_time_jitter(delay, delay / 2) in halves of a time unit: the delay
\* give or take half of it.
JitteredAges(d) == IF d = NoDelay THEN {0} ELSE d .. 3 * d

\* hash_age < jittered_age, the jittered age j2 in halves.
DelayApplies_nowhitelist(d, in_whitelist, age, j2) == d # NoDelay /\ 2 * age < j2

DelayApplies(d, in_whitelist, age, j2) ==
    d # NoDelay /\ ~in_whitelist /\ 2 * age < j2

\* result->v1.prob > 0.9, prob being 0 or 1.
Strong(prob) == 10 * prob > 9

\* The REFRESH goes to the worker's own queue.
RefreshLocal(w) == w = 0

\* A REFRESH is due for the result of the backend.
RefreshDue_readonly(prob, ro) == Strong(prob)

RefreshDue(prob, ro) == Strong(prob) /\ ~ro

\* The REFRESH command c of worker w is queued or sent to the peer socket.
SendRefresh(w, c) ==
    /\ produced' = Append(produced, w)
    /\ IF RefreshLocal(w)
       THEN /\ updates_pending' =
                   [updates_pending EXCEPT ![w] = EnqueueLocal(@, c)]
            /\ send_status' = [send_status EXCEPT ![c] = "local"]
            /\ UNCHANGED peer_pipe
       ELSE LET sent == PeerWriteSucceeds IN
            /\ peer_pipe' = IF sent THEN Append(peer_pipe, c) ELSE peer_pipe
            /\ send_status' = [send_status EXCEPT ![c] =
                    IF StartWatcher(sent) THEN "deferred" ELSE "direct"]
            /\ UNCHANGED updates_pending

\* The callback but for the session it answers.
CheckCallbackBody(w, encrypted, in_whitelist, age, j2, post, post_flag, found) ==
    /\ worker_state[w] = "running"
    /\ Len(produced) < cmd_budget
    /\ post_flag # -1 => post \in {"hit", "deny"}
    /\ j2 \in JitteredAges(delay)
    /\ LET artificial == ArtificialReply(post)
           c == Len(produced) + 1
           delayed == ~artificial /\ DelayApplies(delay, in_whitelist, age, j2)
           refresh == ~artificial /\ RefreshDue(found.prob, read_only)
       IN  /\ IF refresh
              THEN SendRefresh(w, c)
              ELSE UNCHANGED <<produced, updates_pending, send_status,
                               peer_pipe>>
           /\ MakeReply("CHECK", encrypted, encrypted, delayed,
                        IF artificial THEN PostResult(found, post, post_flag)
                                      ELSE found)
           /\ last_cb' = [w |-> w, prob |-> found.prob, flag |-> found.flag,
                          artificial |-> artificial,
                          whitelisted |-> in_whitelist, age |-> age,
                          delayed |-> delayed,
                          refresh |-> IF refresh THEN c ELSE 0,
                          post |-> post, post_flag |-> post_flag,
                          j2 |-> j2]
    /\ UNCHANGED <<cmd_budget, updates_maxfail, updates_failed, transactions,
                   worker_state, peer_fd, commit_count, discard_count,
                   fail_count, fail_run, count_requests>>
    /\ UNCHANGED <<delay, varsR, varsL, varsC>>

RspamdFuzzyCheckCallback(w, encrypted, in_whitelist, age, j2, post, post_flag, found) ==
    /\ CheckCallbackBody(w, encrypted, in_whitelist, age, j2, post,
                         post_flag, found)
    /\ UNCHANGED varsD

\* The callback with its session: the reply is built and written, then the
\* reference taken for the backend is released, after an artificial reply
\* as after any other.
CheckCallbackOfSession(i, w, in_whitelist, age, j2, post, post_flag, found, sendres) ==
    /\ i \in 1 .. Len(sessions)
    /\ sessions[i].stage = "backend"
    /\ CheckCallbackBody(w, sessions[i].keyed, in_whitelist, age, j2, post,
                         post_flag, found)
    /\ sessions' = [sessions EXCEPT
                       ![i] = RefRelease(SessionWriteReply(@, sendres))]

(***************************************************************************)
(* SpecK: backend callbacks of CHECKs in every worker, without a delay,    *)
(* read-only or not: the refreshes.                                        *)
(***************************************************************************)
\* The results of the backend: not found, or found with a flag.
RefreshResults == [value : {0}, prob : {0, 1}, flag : 0 .. MaxFlag, ts : {1}]

InitK ==
    /\ delay = NoDelay
    /\ last_cb = NoCb
    /\ read_only \in BOOLEAN
    /\ encrypted_only = FALSE
    /\ update_ips_set = FALSE
    /\ update_keys_set = FALSE
    /\ pre_handler = FALSE
    /\ last_cmd = NoCmd
    /\ InitPipeline(MaxCmds, {0})
    /\ IdleR
    /\ IdleL
    /\ IdleS
    /\ IdleD

NextK ==
    \E w \in Workers, post \in PostReplies, post_flag \in {-1, MaxFlag},
       found \in RefreshResults :
          RspamdFuzzyCheckCallback(w, FALSE, FALSE, 0, 0, post, post_flag,
                                   found)

SpecK == InitK /\ [][NextK]_vars

(***************************************************************************)
(* SpecJ: one backend callback of a CHECK under every delay, for sources   *)
(* in and out of delay_whitelist and hashes of every age.                  *)
(***************************************************************************)
Delays == {NoDelay} \cup (1 .. MaxDelay)

InitJ ==
    /\ delay \in Delays
    /\ last_cb = NoCb
    /\ forbidden_ids \in SUBSET (1 .. MaxFlag)
    /\ key_stat = ZeroStat
    /\ key_avg = ZeroAvg
    /\ ip_stat = ZeroStat
    /\ stat = ZeroGlobal
    /\ replies_done = 0
    /\ last_reply = NoReply
    /\ InitPipeline(MaxCmds, {0})
    /\ IdleR
    /\ IdleL
    /\ IdleC
    /\ IdleD

NextJ ==
    /\ last_cb = NoCb
    /\ \E w \in Workers, encrypted \in BOOLEAN, in_whitelist \in BOOLEAN,
          age \in 0 .. MaxAge, j2 \in 0 .. 3 * MaxDelay, post \in PostReplies,
          post_flag \in PreFlags, found \in FoundResults :
             RspamdFuzzyCheckCallback(w, encrypted, in_whitelist, age, j2,
                                      post, post_flag, found)

SpecJ == InitJ /\ [][NextJ]_vars

(***************************************************************************)
(* SpecA: sessions whose CHECK went to the backend, one of which is        *)
(* answered by the callback, with a post-handler or without, and their     *)
(* deferred replies.                                                       *)
(***************************************************************************)
InitA ==
    /\ delay \in {NoDelay, 1}
    /\ last_cb = NoCb
    /\ forbidden_ids \in SUBSET (1 .. MaxFlag)
    /\ key_stat = ZeroStat
    /\ key_avg = ZeroAvg
    /\ ip_stat = ZeroStat
    /\ stat = ZeroGlobal
    /\ replies_done = 0
    /\ last_reply = NoReply
    /\ sessions = <<>>
    /\ InitPipeline(MaxCmds, {0})
    /\ IdleR
    /\ IdleL
    /\ IdleC

NextA ==
    \/ \E keyed \in BOOLEAN : SessionAccept(TRUE, keyed, "backend", "ok")
    \/ /\ replies_done = 0
       /\ \E i \in 1 .. MaxSess, w \in Workers, age \in {0, MaxAge},
             j2 \in {0, 1, 3}, post \in PostReplies,
             post_flag \in PreFlags, found \in RefreshResults,
             sendres \in SendResults :
                CheckCallbackOfSession(i, w, FALSE, age, j2, post, post_flag,
                                       found, sendres)
    \/ \E i \in 1 .. MaxSess, sendres \in SendResults :
          SessionReplyIo(i, sendres)

SpecA == InitA /\ [][NextA]_vars

(***************************************************************************)
(* rspamd_fuzzy_process_command in worker w together with what the WRITE   *)
(* and DEL branch does to the pipeline: the request is answered as the     *)
(* configuration decides, and an accepted command is queued or forwarded.  *)
(***************************************************************************)
HandleRequest(w, cmd, encrypted, af, ip_match, key_match) ==
    /\ worker_state[w] = "running"
    /\ last_cmd.outcome # "crash"
    /\ ip_match => (update_ips_set /\ af = "inet")
    /\ key_match => (update_keys_set /\ encrypted)
    /\ \E r \in CommandResults(cmd, encrypted, af, ip_match, key_match,
                               FALSE, "none", TRUE) :
           /\ last_cmd' = [NoCmd EXCEPT !.cmd = cmd,
                                        !.encrypted = encrypted, !.af = af,
                                        !.ip_match = ip_match,
                                        !.key_match = key_match,
                                        !.outcome = r.outcome,
                                        !.value = r.value, !.prob = r.prob,
                                        !.backend = r.backend,
                                        !.enqueued = r.enqueued]
           /\ IF r.enqueued
              THEN ForwardOrEnqueue(w)
              ELSE UNCHANGED varsU
    /\ UNCHANGED <<read_only, encrypted_only, update_ips_set,
                   update_keys_set, pre_handler, varsR, varsL, varsS, varsD,
                   varsK>>

(***************************************************************************)
(* SpecO: the workers of a storage that is read-only or not: requests,     *)
(* backend callbacks of CHECKs with a strong match, and the pipeline.      *)
(***************************************************************************)
InitO ==
    /\ read_only \in BOOLEAN
    /\ encrypted_only = FALSE
    /\ update_ips_set \in BOOLEAN
    /\ update_keys_set \in BOOLEAN
    /\ pre_handler = FALSE
    /\ last_cmd = NoCmd
    /\ InitPipeline(MaxCmdsO, {0})
    /\ IdleR
    /\ IdleL
    /\ IdleS
    /\ IdleD
    /\ IdleK

NextO ==
    \/ \E w \in Workers, cmd \in {"WRITE", "DEL"}, encrypted \in BOOLEAN,
          af \in {"unix", "inet"}, ip_match \in BOOLEAN,
          key_match \in BOOLEAN :
              HandleRequest(w, cmd, encrypted, af, ip_match, key_match)
    \/ \E w \in Workers :
          RspamdFuzzyCheckCallback(w, FALSE, FALSE, 0, 0, "none", -1,
                                   [value |-> 0, prob |-> 1, flag |-> 0,
                                    ts |-> 1])
    \/ \E w \in Workers : PeerWritable(w)
    \/ \E c \in Cmds : FuzzyPeerSendIo(c)
    \/ RspamdFuzzyPeerIo
    \/ \E w \in Workers : PeriodicCallback(w)
    \/ \E w \in Workers : StorageSync(w)
    \/ \E w \in Workers : Shutdown(w)
    \/ \E i \in 1 .. MaxCmds, success \in BOOLEAN : UpdatesCb(i, success)

SpecO == InitO /\ [][NextO]_vars

(***************************************************************************)
(* The start of a worker.  start_fuzzy sets peer_fd to -1, prepares the    *)
(* worker without an accept handler and asks the main process for its end  *)
(* of the socket pair; fuzzy_peer_rep gets the answer: without a           *)
(* descriptor the worker exits, with one it starts to accept datagrams on  *)
(* its UDP sockets (and worker 0 to read the peer socket).                 *)
(***************************************************************************)
PeerReplies == {"none", "open"}

\* The worker after fuzzy_peer_rep was given rep_fd.
StateAfterPeerRep_listen(rep_fd) == "running"

StateAfterPeerRep(rep_fd) == IF rep_fd = "none" THEN "exited" ELSE "running"

FuzzyPeerRep(w, rep_fd) ==
    /\ worker_state[w] = "starting"
    /\ peer_fd' = [peer_fd EXCEPT ![w] = rep_fd]
    /\ worker_state' = [worker_state EXCEPT ![w] = StateAfterPeerRep(rep_fd)]
    /\ UNCHANGED <<varsRL, cmd_budget, updates_maxfail, updates_pending,
                   updates_failed, transactions, peer_pipe, produced,
                   send_status, commit_count, discard_count, fail_count,
                   fail_run, count_requests>>

(***************************************************************************)
(* SpecB: the workers from start_fuzzy on: they get their peer descriptor, *)
(* receive WRITEs and DELs and answer CHECKs that call for a REFRESH.      *)
(***************************************************************************)
InitB ==
    /\ cmd_budget = MaxCmdsW
    /\ updates_maxfail = 0
    /\ updates_pending = [w \in Workers |-> <<>>]
    /\ updates_failed = [w \in Workers |-> 0]
    /\ transactions = <<>>
    /\ worker_state = [w \in Workers |-> "starting"]
    /\ peer_fd = [w \in Workers |-> "none"]
    /\ peer_pipe = <<>>
    /\ produced = <<>>
    /\ send_status = [c \in Cmds |-> "none"]
    /\ commit_count = [c \in Cmds |-> 0]
    /\ discard_count = [c \in Cmds |-> 0]
    /\ fail_count = [c \in Cmds |-> 0]
    /\ fail_run = 0
    /\ count_requests = 0
    /\ IdleR
    /\ IdleL
    /\ IdleX

NextB ==
    \/ \E w \in Workers, rep_fd \in PeerReplies : FuzzyPeerRep(w, rep_fd)
    \/ \E w \in Workers : ProcessMutation(w)
    \/ \E w \in Workers :
          RspamdFuzzyCheckCallback(w, FALSE, FALSE, 0, 0, "none", -1,
                                   [value |-> 0, prob |-> 1, flag |-> 0,
                                    ts |-> 1])
    \/ \E w \in Workers : PeerWritable(w)
    \/ \E c \in Cmds : FuzzyPeerSendIo(c)
    \/ RspamdFuzzyPeerIo
    \/ \E w \in Workers : PeriodicCallback(w)
    \/ \E w \in Workers : Shutdown(w)
    \/ \E i \in 1 .. MaxCmds, success \in BOOLEAN : UpdatesCb(i, success)

SpecB == InitB /\ [][NextB]_vars

(***************************************************************************)
(* Properties of the update pipeline.                                      *)
(***************************************************************************)
\* Places where command c can be inside worker 0: pending queue, in-flight
\* transactions, committed, discarded.
PlacesInPipeline(c) ==
    Occurrences(updates_pending[0], c) + InFlightOccurrences(transactions, c)
        + commit_count[c] + discard_count[c]

\* The step is a commit callback that reported a failure / a success / that
\* discarded its transaction.
FailureStep == fail_count' # fail_count

SuccessStep == commit_count' # commit_count

DiscardStep == discard_count' # discard_count

\* C1: only worker 0 ever submits a batch of updates to the backend: every
\* transaction handed to the backend, by the periodic drain, by SYNC, by the
\* final drain or by the resubmission of a failed final batch, was created by
\* worker 0.
C1_OnlyWorkerZeroSubmits ==
    \A i \in 1 .. Len(transactions) : transactions[i].by = 0

\* C1 witness: another worker received a mutation and has left its event
\* loop, and the mutation is in a transaction submitted by worker 0.
C1_Witness ==
    \E w \in Workers \ {0}, i \in 1 .. Len(transactions) :
        /\ worker_state[w] = "exited"
        /\ transactions[i].by = 0
        /\ \E c \in Range(transactions[i].updates) : produced[c] = w

\* C2: a command enqueued at worker 0 is at every moment in exactly one of:
\* the pending queue, one in-flight transaction, committed, discarded; it is
\* never in two of them and never twice in one.
C2_ExactlyOnePlace ==
    \A c \in 1 .. Len(produced) :
        send_status[c] = "local" => PlacesInPipeline(c) = 1

\* C2 witness: one command was committed after a failed attempt, another was
\* discarded, a third waits in the queue or in a transaction.
C2_Witness ==
    \E c1, c2, c3 \in 1 .. Len(produced) :
        /\ commit_count[c1] = 1 /\ fail_count[c1] >= 1
        /\ discard_count[c2] = 1
        /\ Occurrences(updates_pending[0], c3)
               + InFlightOccurrences(transactions, c3) = 1

\* C9: while fewer than updates_maxfail + 1 commits have failed in a row, a
\* failed commit loses and discards nothing (each of its commands is once
\* in the queue or in a transaction afterwards), and a successful commit
\* leaves updates_failed = 0 and commits each of its commands for the first
\* and only time.
C9_RetryThenCommitOnce ==
    [][ /\ (FailureStep /\ fail_run + 1 <= updates_maxfail) =>
             /\ ~DiscardStep
             /\ \A c \in Cmds : fail_count'[c] > fail_count[c] =>
                    /\ Occurrences(updates_pending'[0], c)
                           + InFlightOccurrences(transactions', c) = 1
                    /\ commit_count'[c] = 0
        /\ SuccessStep =>
             /\ updates_failed'[0] = 0
             /\ \A c \in Cmds : commit_count'[c] > commit_count[c] =>
                    /\ commit_count'[c] = 1
                    /\ discard_count'[c] = 0
                    /\ Occurrences(updates_pending'[0], c)
                           + InFlightOccurrences(transactions', c) = 0
      ]_vars

\* C9 witness: a command failed updates_maxfail (at least one) times in a
\* row, was then committed, and nothing was discarded.
C9_Witness ==
    /\ updates_maxfail >= 1
    /\ updates_failed[0] = 0
    /\ \A c \in Cmds : discard_count[c] = 0
    /\ \E c \in 1 .. Len(produced) :
           fail_count[c] = updates_maxfail /\ commit_count[c] = 1

\* C10 as stated: every discarded command took part in more than
\* updates_maxfail failed commit attempts.
C10_DiscardedFailedOften ==
    \A c \in Cmds : discard_count[c] > 0 => fail_count[c] > updates_maxfail

\* C10 amended: a failed commit discards its transaction exactly when it is
\* the (updates_maxfail + 1)-th failed commit callback in a row, counted
\* over all transactions since the last success or discard; a discarded
\* command took part in at least one failed attempt.
C10_DiscardAtGlobalRun ==
    [][ FailureStep =>
          /\ DiscardStep <=> (fail_run + 1 > updates_maxfail)
          /\ \A c \in Cmds : discard_count'[c] > discard_count[c] =>
                 fail_count'[c] >= 1 /\ discard_count'[c] = 1
      ]_vars

\* C10 witness: with updates_maxfail >= 1, a command that joined the queue
\* during the retries was discarded after a single failed attempt, together
\* with a command that failed updates_maxfail + 1 times.
C10_Witness ==
    /\ updates_maxfail >= 1
    /\ \E c, d \in 1 .. Len(produced) :
           /\ discard_count[c] = 1 /\ fail_count[c] = 1
           /\ discard_count[d] = 1 /\ fail_count[d] = updates_maxfail + 1

(***************************************************************************)
(* Properties of the peer multiplexer.                                     *)
(***************************************************************************)
\* Copies of command c anywhere between the peer socket and the backend.
PlacesAfterSend(c) == Occurrences(peer_pipe, c) + PlacesInPipeline(c)

\* Command c has been read from the peer socket by worker 0.
Delivered(c) ==
    send_status[c] \in {"direct", "retried"} /\ c \notin Range(peer_pipe)

\* The step is worker 0 reading the peer socket.
PeerReadStep == peer_pipe # <<>> /\ peer_pipe' = <<>>

WatcherRan(c) ==
    /\ c \in 1 .. Len(produced)
    /\ send_status[c] = "ready"
    /\ send_status'[c] # "ready"
    /\ worker_state' = worker_state

Mutation(c) == Len(produced) = c - 1 /\ Len(produced') = c

\* C37: a worker handles requests only after fuzzy_peer_rep gave it a peer
\* descriptor: whenever a worker takes a mutation it is running and its
\* peer_fd is not -1, and a worker other than 0 leaves every pending queue
\* as it is, its own, which stays empty, included.
C37_ServesOnlyWithPeerFd ==
    [][\A c \in Cmds : Mutation(c) =>
          LET w == produced'[c] IN
          /\ worker_state[w] = "running"
          /\ peer_fd[w] # "none"
          /\ w # 0 => /\ updates_pending' = updates_pending
                      /\ updates_pending[w] = <<>>
                      /\ send_status'[c] \in {"direct", "deferred"}
      ]_vars

\* C37 witness: worker 1 got its descriptor and took two mutations while
\* worker 0 had not got its own yet; neither went into a pending queue.
C37_Witness ==
    /\ worker_state[0] = "starting" /\ peer_fd[0] = "none"
    /\ worker_state[1] = "running" /\ peer_fd[1] = "open"
    /\ produced = <<1, 1>>
    /\ \A w \in Workers : updates_pending[w] = <<>>
    /\ send_status[1] # "local" /\ send_status[2] # "local"

(***************************************************************************)
(* Properties of the receive loop.                                         *)
(***************************************************************************)
\* C5 as stated: for every datagram whose handling has ended without a
\* socket error, either a reply was sent or invalid_requests was
\* incremented once for it, and not both.
C5_ReplyXorCounted ==
    \A i \in 1 .. Len(dgrams) :
        dgrams[i].stage \in {"dropped", "invalid", "replied"} =>
            \/ dgrams[i].sent = 1 /\ dgrams[i].counted = 0
            \/ dgrams[i].sent = 0 /\ dgrams[i].counted = 1

\* C5 amended: a datagram from a blocked source gets no reply and is not
\* counted; a datagram from any other source that does not decode is
\* counted once in invalid_requests and gets no reply; one that decodes is
\* never counted and gets at most one reply, exactly one once its sendto
\* has succeeded; invalid_requests is the number of undecodable datagrams
\* from sources that are not blocked.
C5_ReplyOrCountUnlessBlocked ==
    /\ \A i \in 1 .. Len(dgrams) :
          LET d == dgrams[i]
              blocked == d.src # NoAddr /\ d.src \in blocked_ips
          IN
          /\ blocked => d.sent = 0 /\ d.counted = 0
          /\ (~blocked /\ ~d.decodable) => d.sent = 0 /\ d.counted = 1
          /\ (~blocked /\ d.decodable) =>
                 /\ d.counted = 0
                 /\ d.sent <= 1
                 /\ d.sent = 1 <=> d.stage = "replied"
    /\ invalid_requests =
           Cardinality({i \in 1 .. Len(dgrams) :
               /\ ~dgrams[i].decodable
               /\ ~(dgrams[i].src # NoAddr /\ dgrams[i].src \in blocked_ips)})

\* C5 witness: one datagram came from a blocked source, one did not decode,
\* one was answered.
C5_Witness ==
    \E i, j, k \in 1 .. Len(dgrams) :
        /\ dgrams[i].stage = "dropped" /\ dgrams[i].decodable
        /\ dgrams[j].stage = "invalid"
        /\ dgrams[k].stage = "replied"
        /\ invalid_requests = 1

\* The step is accept_fuzzy_socket taking one datagram.
Received == Len(dgrams') = Len(dgrams) + 1

\* The source of datagram d is matched by blocked_ips.
FromBlocked(d) == d.src # NoAddr /\ d.src \in blocked_ips

\* C32: a datagram from a blocked source is dropped at once: it gets no
\* session and no reply, now or later, nothing is counted for it, the
\* statistics, the rate limiter's buckets and the queues stay as they are,
\* and the blacklist hook is called once for it; a datagram that follows a
\* dropped one is handled by its own source and content.
C32_BlockedIsDroppedSilently ==
    [][/\ Received =>
              LET d == dgrams'[Len(dgrams')] IN
              /\ SubSeq(dgrams', 1, Len(dgrams)) = dgrams
              /\ IF FromBlocked(d)
                 THEN /\ d.stage = "dropped"
                      /\ d.sent = 0 /\ d.counted = 0 /\ d.hook = 1
                      /\ UNCHANGED <<invalid_requests, errors_ips, varsU,
                                     varsR, varsS>>
                 ELSE /\ d.stage # "dropped"
                      /\ d.hook = 0
                      /\ d.decodable <=> d.stage # "invalid"
        /\ \A i \in 1 .. Len(dgrams) :
              dgrams[i].stage = "dropped" => dgrams'[i] = dgrams[i]
      ]_vars

\* C32 witness: the first datagram of a batch came from a blocked source
\* and was dropped with one call of the hook; the next one, from another
\* source, has been answered.
C32_Witness ==
    /\ Len(dgrams) = 2
    /\ FromBlocked(dgrams[1])
    /\ dgrams[1].stage = "dropped" /\ dgrams[1].hook = 1
    /\ ~FromBlocked(dgrams[2])
    /\ dgrams[2].stage = "replied" /\ dgrams[2].sent = 1
    /\ invalid_requests = 0

(***************************************************************************)
(* Properties of the rate limiter.                                         *)
(***************************************************************************)
\* The step is the processing of a CHECK request.
CheckStep == checks_done' # checks_done

\* C6 as stated: with rate 0 and the limiter enforcing, a CHECK that finds
\* its bucket at a level >= burst is denied (value 403) and the blacklist
\* hook is called once for it.
C6_DeniedOnReachingBurst ==
    ( /\ last_check.addr \in Addrs
      /\ leaky_bucket_rate = 0
      /\ ~ratelimit_log_only
      /\ last_check.present /\ ~last_check.nan
      /\ last_check.level >= leaky_bucket_burst )
    => (last_check.denied /\ last_check.hook = 1)

C8_LevelWithinBurst ==
    \A a \in Addrs :
        ratelimit_buckets[a].present =>
            \/ ratelimit_buckets[a].nan
            \/ /\ 0 <= ratelimit_buckets[a].cur
               /\ ratelimit_buckets[a].cur <= leaky_bucket_burst

\* C8 amended (rate >= 0, burst >= 0): every bucket is at NaN or at a level
\* that is at least 0 and either less than burst + 1 or exactly 1 (the level
\* of a bucket that has admitted one request since it was created).
C8_LevelBelowBurstPlusOne ==
    \A a \in Addrs :
        ratelimit_buckets[a].present =>
            \/ ratelimit_buckets[a].nan
            \/ /\ 0 <= ratelimit_buckets[a].cur
               /\ \/ ratelimit_buckets[a].cur < leaky_bucket_burst + Scale
                  \/ ratelimit_buckets[a].cur = Scale

\* C8 witness: after a partial leak and one more admitted request a bucket
\* is above the burst, and not at the level of a new bucket.
C8_Witness ==
    \E a \in Addrs :
        /\ ratelimit_buckets[a].present /\ ~ratelimit_buckets[a].nan
        /\ ratelimit_buckets[a].cur > leaky_bucket_burst
        /\ ratelimit_buckets[a].cur # Scale
        /\ leaky_bucket_rate > 0

\* C27: in log-only mode no CHECK is denied by the rate limiter, whatever
\* the limiter decides, and every CHECK leaves the buckets as the limiter
\* run for the same source at the same time leaves them, with the same
\* decision recorded, whether the mode is log-only or enforcing; without
\* log-only the decision is enforced.
C27_LogOnlyNeverDenies ==
    [][CheckStep =>
          LET r == RspamdFuzzyCheckRatelimit(last_check'.addr, timestamp)
          IN  /\ ratelimit_log_only => ~last_check'.denied
              /\ ~ratelimit_log_only =>
                     (last_check'.denied <=> last_check'.ratelimited)
              /\ ratelimit_buckets' = r.buckets
              /\ last_check'.ratelimited = r.ratelimited
              /\ last_check'.level = r.level
      ]_vars

\* C27 witness: in log-only mode a CHECK found the bucket of its source
\* marked as exceeded by the earlier CHECKs counted in it; the limiter
\* said no and the CHECK was let through.
C27_Witness ==
    /\ ratelimit_log_only
    /\ last_check.addr # NoAddr
    /\ last_check.present
    /\ last_check.nan
    /\ last_check.ratelimited
    /\ ~last_check.denied
    /\ checks_done >= 3

(***************************************************************************)
(* Properties of the order of mutations.                                   *)
(***************************************************************************)
\* Command a stands before command b in the sequence q.
Before(q, a, b) ==
    \E m, n \in 1 .. Len(q) : m < n /\ q[m] = a /\ q[n] = b

\* Command c is in a transaction handed to the backend, or was.
Submitted(c) ==
    \/ InFlightOccurrences(transactions, c) > 0
    \/ commit_count[c] > 0
    \/ discard_count[c] > 0
    \/ fail_count[c] > 0

\* C19 as stated: mutations are submitted in the order they were enqueued
\* at worker 0: a command enqueued before another never stands behind it in
\* a transaction, also after a failed commit, whose updates are put back
\* ahead of the commands that arrived after the drain.
C19_SubmittedInEnqueueOrder ==
    \A i \in 1 .. Len(transactions) : \A a, b \in Cmds :
        (a < b) => ~Before(transactions[i].updates, b, a)

\* C19 amended: the order of enqueueing is kept among commands that were
\* never part of a failed transaction: of two such commands the earlier one
\* never stands behind the later one in the pending queue or in a
\* transaction, is never in a later transaction, and is not left in the
\* queue when the later one has been submitted.  (A failed transaction's
\* updates go behind the commands that arrived after the drain.)
C19_EnqueueOrderOfUnfailed ==
    \A a, b \in Cmds :
        (a < b /\ fail_count[a] = 0 /\ fail_count[b] = 0) =>
            /\ ~Before(updates_pending[0], b, a)
            /\ \A i \in 1 .. Len(transactions) :
                   ~Before(transactions[i].updates, b, a)
            /\ \A i, j \in 1 .. Len(transactions) :
                   (/\ a \in Range(transactions[j].updates)
                    /\ b \in Range(transactions[i].updates)) => j <= i
            /\ Submitted(b) => a \notin Range(updates_pending[0])

\* C19 witness: a transaction carries two commands that never failed, in
\* the order of their enqueueing, followed by an earlier command whose first
\* commit failed.
C19_Witness ==
    \E i \in 1 .. Len(transactions) :
        /\ transactions[i].updates = <<2, 3, 1>>
        /\ fail_count[1] = 1 /\ fail_count[2] = 0 /\ fail_count[3] = 0

\* C20: when a commit fails and the retry limit is not exceeded, the failed
\* transaction's updates go, in their original order, to the tail of the
\* pending queue, behind every command enqueued between the drain and the
\* failure callback (and in a final drain the queue so formed is submitted
\* again at once).
C20_FailedUpdatesAppendedAtTail ==
    [][(FailureStep /\ ~DiscardStep) =>
          \E i \in 1 .. Len(transactions) :
              LET t == transactions[i]
              IN  /\ \A c \in Cmds :
                         fail_count'[c] # fail_count[c]
                             <=> c \in Range(t.updates)
                  /\ IF t.final
                     THEN /\ updates_pending'[0] = <<>>
                          /\ Len(transactions') >= 1
                          /\ transactions'[Len(transactions')].updates =
                                 updates_pending[0] \o t.updates
                     ELSE updates_pending'[0] =
                              updates_pending[0] \o t.updates
      ]_vars

\* C20 witness: the failed commands 1 and 2 stand, in that order, behind
\* command 3, which arrived while their transaction was in flight.
C20_Witness ==
    /\ updates_pending[0] = <<3, 1, 2>>
    /\ fail_count[1] = 1 /\ fail_count[2] = 1 /\ fail_count[3] = 0

(***************************************************************************)
(* Properties of drains and commit callbacks.                              *)
(***************************************************************************)
\* The step is a drain by the periodic callback, SYNC or the shutdown: one
\* more transaction is in flight.
DrainStep == Len(transactions') = Len(transactions) + 1

\* The step enqueues a new mutation.
EnqueueStep == produced' # produced

\* C21: a drain of a non-empty pending queue moves exactly the commands
\* pending at that moment, in the same order, into one new transaction and
\* leaves the queue empty (the transactions already in flight stay as they
\* are); a command enqueued after the drain and before the commit callback
\* goes to the pending queue and into no transaction.
C21_DrainTakesWholeQueue ==
    [][/\ DrainStep =>
            /\ updates_pending[0] # <<>>
            /\ transactions'[Len(transactions')].updates = updates_pending[0]
            /\ updates_pending'[0] = <<>>
            /\ \A i \in 1 .. Len(transactions) :
                   transactions'[i] = transactions[i]
       /\ EnqueueStep =>
            /\ transactions' = transactions
            /\ updates_pending'[0] =
                   Append(updates_pending[0], Len(produced'))
      ]_vars

\* C21 witness: commands 1 and 2 were drained together and are in flight,
\* command 3 arrived afterwards and waits in the queue.
C21_Witness ==
    /\ Len(transactions) = 1
    /\ transactions[1].updates = <<1, 2>>
    /\ updates_pending[0] = <<3>>
    /\ \A c \in Cmds : fail_count[c] = 0

\* The step is the callback of the in-flight transaction i.
CallbackOf(i) ==
    /\ i \in 1 .. Len(transactions)
    /\ \A c \in Cmds :
           (fail_count'[c] # fail_count[c] \/ commit_count'[c] # commit_count[c])
               <=> c \in Range(transactions[i].updates)

\* C22: a failed commit callback adds one to updates_failed; when the
\* incremented value exceeds updates_maxfail the transaction's updates are
\* discarded and not returned to pending, updates_failed is reset to 0, the
\* event loop is broken when the transaction is final, and the pending
\* queue is left as it is.
C22_FailureCountsOrDiscards ==
    [][FailureStep =>
          \E i \in 1 .. Len(transactions) :
              /\ CallbackOf(i)
              /\ IF updates_failed[0] + 1 > updates_maxfail
                 THEN /\ updates_failed'[0] = 0
                      /\ \A c \in Cmds :
                             discard_count'[c] = discard_count[c]
                                 + Occurrences(transactions[i].updates, c)
                      /\ updates_pending' = updates_pending
                      /\ Len(transactions') = Len(transactions) - 1
                      /\ transactions[i].final => worker_state'[0] = "exited"
                 ELSE /\ updates_failed'[0] = updates_failed[0] + 1
                      /\ discard_count' = discard_count
      ]_vars

\* C22 witness: with updates_maxfail = 1 the second failure in a row
\* discarded commands 1 and 2 while command 3 stayed in the pending queue.
C22_Witness ==
    /\ updates_maxfail = 1
    /\ discard_count[1] = 1 /\ discard_count[2] = 1
    /\ updates_pending[0] = <<3>>
    /\ updates_failed[0] = 0

\* C23: a successful commit callback sets updates_failed to 0, asks the
\* backend for the count of stored hashes, returns none of the transaction's
\* updates to the pending queue, and breaks the event loop exactly when the
\* transaction is final or the worker is no longer running.
C23_SuccessResetsAndRefreshes ==
    [][SuccessStep =>
          \E i \in 1 .. Len(transactions) :
              /\ CallbackOf(i)
              /\ updates_failed'[0] = 0
              /\ count_requests' = count_requests + 1
              /\ updates_pending' = updates_pending
              /\ Len(transactions') = Len(transactions) - 1
              /\ (worker_state'[0] = "exited") <=>
                     (transactions[i].final \/ worker_state[0] # "running")
      ]_vars

\* C23 witness: a transaction committed while the worker was running and
\* the loop went on; after the shutdown the final transaction committed
\* and the loop was broken.
C23_Witness ==
    /\ worker_state[0] = "exited"
    /\ count_requests = 2
    /\ commit_count[1] = 1 /\ commit_count[2] = 1
    /\ updates_failed[0] = 0

\* C24: the shutdown drain of worker 0 terminates: when the backend invokes
\* every commit callback, the event loop started for the final drain is
\* eventually broken (a commit succeeded, or the failures exceeded
\* updates_maxfail; a failed final commit within the limit is resubmitted
\* at once and counts towards the limit).
C24_FinalDrainTerminates ==
    (worker_state[0] = "final_sync") ~> (worker_state[0] = "exited")

\* C24 witness: the final drain is under way, its transaction in flight
\* again after a failed commit within the limit.
C24_Witness ==
    /\ worker_state[0] = "final_sync"
    /\ updates_maxfail = 1
    /\ updates_failed[0] = 1
    /\ Len(transactions) = 1
    /\ transactions[1].final
    /\ transactions[1].updates = <<1, 2>>
    /\ fail_count[1] = 1 /\ fail_count[2] = 1

\* C33: between callbacks the failure counter of every worker lies in
\* 0 .. updates_maxfail, and the counter of worker 0 equals the number of
\* failed commit callbacks since the last successful commit or the last
\* discard, whichever transactions those callbacks belonged to.
C33_FailedCountsGlobalRun ==
    /\ \A w \in Workers : updates_failed[w] \in 0 .. updates_maxfail
    /\ updates_failed[0] = fail_run

\* C33 witness: one failure is counted, it belongs to a command that is back
\* in the queue, and a later transaction whose commands never failed is in
\* flight under the same counter.
C33_Witness ==
    /\ updates_maxfail = 1
    /\ updates_failed[0] = 1 /\ fail_run = 1
    /\ Len(transactions) = 1
    /\ \A c \in Range(transactions[1].updates) : fail_count[c] = 0
    /\ \E c \in Range(updates_pending[0]) : fail_count[c] = 1

(***************************************************************************)
(* Properties of command processing.                                       *)
(***************************************************************************)
\* The last request was a WRITE or DEL that reached the permission test.
WriteDecided == last_cmd.outcome \in {"accepted", "write_forbidden"}

\* C11: a WRITE or DEL is accepted (queued, answered value 0 and prob 1.0)
\* when read_only is off and the client address is in update_ips, or is a
\* unix-domain address, or the client's key is in update_keys.  The grants
\* are alternatives; in particular a client whose key is in update_keys is
\* accepted even if update_ips is configured and does not contain its
\* address.
C11_KeyGrantSufficesBesideIps ==
    (WriteDecided /\ last_cmd.encrypted /\ ~read_only
        /\ last_cmd.key_match) =>
            /\ last_cmd.outcome = "accepted"
            /\ last_cmd.enqueued
            /\ last_cmd.value = 0 /\ last_cmd.prob = 1

\* C12: with encrypted_only on, every plaintext request is answered with
\* value 403 and prob 0, with or without a pre-handler; the backend is not
\* consulted and nothing is queued.
C12_PlaintextAlways403 ==
    (encrypted_only /\ last_cmd.cmd # "none" /\ ~last_cmd.encrypted) =>
        /\ last_cmd.value = 403
        /\ last_cmd.prob = 0
        /\ ~last_cmd.backend
        /\ ~last_cmd.enqueued

\* The branches of rspamd_fuzzy_process_command that reject a request.
Rejections == {"encrypted_only", "ratelimit", "write_forbidden", "skip_hash"}

PreReplied == pre_handler /\ last_cmd.pre \in {"hit", "deny"}

\* What the last request left behind, as the other results are written.
LastResult ==
    [outcome |-> last_cmd.outcome, value |-> last_cmd.value,
     prob |-> last_cmd.prob, backend |-> last_cmd.backend,
     enqueued |-> last_cmd.enqueued]

\* C26 as stated: the reply to a request whose pre-handler returned true
\* carries the handler's value and prob, and the handler's flag when it
\* returned one.
C26_ReplyCarriesHandlersFlag ==
    PreReplied =>
        /\ last_cmd.rep.value = PreReplyValue(last_cmd.pre)
        /\ last_cmd.rep.prob = PreReplyProb(last_cmd.pre)
        /\ last_cmd.pre_flag # -1 => last_cmd.rep.flag = last_cmd.pre_flag

\* C26 amended: when the pre-handler returned true the reply is built from
\* the handler's value and prob and the flag of the request, whatever
\* flag the handler returned: it carries these three, except that an
\* encrypted reply with prob > 0 whose flag is forbidden for the key is
\* blanked; the backend is not consulted, the rate limiter is not called
\* and nothing is queued.  When the handler returned false or failed, the
\* request is processed as one whose handler is not registered.
C26_PreHandlerReply ==
    /\ PreReplied =>
           /\ last_cmd.outcome = "pre_reply"
           /\ IF /\ last_cmd.encrypted
                 /\ PreReplyProb(last_cmd.pre) > 0
                 /\ last_cmd.flag \in forbidden_ids
              THEN last_cmd.rep = [value |-> 0, prob |-> 0, flag |-> 0, ts |-> 0]
              ELSE last_cmd.rep = [value |-> PreReplyValue(last_cmd.pre),
                                   prob |-> PreReplyProb(last_cmd.pre),
                                   flag |-> last_cmd.flag, ts |-> 0]
           /\ ~last_cmd.backend
           /\ ~last_cmd.ratelimit
           /\ ~last_cmd.enqueued
    /\ (last_cmd.cmd # "none" /\ last_cmd.pre \in {"none", "fail"}) =>
           /\ last_cmd.outcome # "pre_reply"
           /\ LastResult \in CommandResults(last_cmd.cmd, last_cmd.encrypted,
                                 last_cmd.af, last_cmd.ip_match,
                                 last_cmd.key_match, last_cmd.skip_match,
                                 "none", last_cmd.rl_allowed)

\* C26 witness: a handler answered an encrypted WRITE from an address in
\* update_ips with (true, 0, 1.0) and a flag of its own; the reply has the
\* request's flag and nothing was queued.
C26_Witness ==
    /\ PreReplied
    /\ last_cmd.cmd = "WRITE" /\ last_cmd.ip_match /\ last_cmd.encrypted
    /\ last_cmd.pre = "hit"
    /\ last_cmd.pre_flag = 1 /\ last_cmd.flag = 0
    /\ last_cmd.rep.flag = 0 /\ last_cmd.rep.prob = 1
    /\ ~last_cmd.enqueued

\* C38: in a read-only storage no WRITE, no DEL and no CHECK with a strong
\* match, in any worker and from any client, puts a command into a pending
\* queue or on the peer socket or starts a watcher for one, so that no
\* transaction is ever submitted to the backend; a WRITE or DEL is answered
\* 403.
C38_ReadOnlyQueuesNothing ==
    read_only =>
        /\ produced = <<>>
        /\ \A w \in Workers : updates_pending[w] = <<>>
        /\ peer_pipe = <<>>
        /\ \A c \in Cmds : send_status[c] = "none"
        /\ transactions = <<>>
        /\ last_cmd.cmd \in {"WRITE", "DEL"} =>
               (last_cmd.outcome = "write_forbidden" /\ ~last_cmd.enqueued)
        /\ last_cb.refresh = 0

\* C38 witness: the read-only storage was sent a WRITE by a unix-domain
\* client whose key is in update_keys and answered CHECKs with a strong
\* match, and worker 0 has shut down without a final drain.
C38_Witness ==
    /\ read_only /\ update_keys_set /\ update_ips_set
    /\ last_cmd.cmd = "WRITE" /\ last_cmd.af = "unix" /\ last_cmd.key_match
    /\ last_cb.prob = 1 /\ replies_done = MaxReplies
    /\ worker_state[0] = "exited"

(***************************************************************************)
(* Properties of the backend callback of a CHECK.                          *)
(***************************************************************************)
\* The step is rspamd_fuzzy_check_callback answering a CHECK.
CheckAnswered == replies_done' = replies_done + 1 /\ last_cb'.w \in Workers

\* C28 as stated: a CHECK whose backend result has prob > 0.9 while
\* read_only is false produces exactly one REFRESH, and no other CHECK
\* produces one.
C28_RefreshForEveryStrongResult ==
    [][CheckAnswered =>
          IF last_cb'.prob = 1 /\ ~read_only
          THEN Len(produced') = Len(produced) + 1
          ELSE produced' = produced
      ]_vars

\* C28 amended: a CHECK whose backend result has prob > 0.9 while read_only
\* is false and whose post-handler gave no artificial reply produces
\* exactly one REFRESH: appended to the pending queue on worker 0; on any
\* other worker written to the peer socket, or left to a write-readiness
\* watcher when the socket takes no more.  Any other CHECK produces none.
C28_RefreshUnlessArtificial ==
    [][CheckAnswered =>
          LET c == Len(produced) + 1
              w == last_cb'.w
          IN  IF last_cb'.prob = 1 /\ ~read_only /\ ~last_cb'.artificial
              THEN /\ produced' = Append(produced, w)
                   /\ last_cb'.refresh = c
                   /\ \A d \in Cmds \ {c} : send_status'[d] = send_status[d]
                   /\ IF w = 0
                      THEN /\ updates_pending' =
                                  [updates_pending EXCEPT ![0] = Append(@, c)]
                           /\ peer_pipe' = peer_pipe
                           /\ send_status'[c] = "local"
                      ELSE /\ updates_pending' = updates_pending
                           /\ IF Len(peer_pipe) < PipeCap
                              THEN /\ peer_pipe' = Append(peer_pipe, c)
                                   /\ send_status'[c] = "direct"
                              ELSE /\ peer_pipe' = peer_pipe
                                   /\ send_status'[c] = "deferred"
              ELSE /\ last_cb'.refresh = 0
                   /\ produced' = produced
                   /\ updates_pending' = updates_pending
                   /\ peer_pipe' = peer_pipe
                   /\ send_status' = send_status
      ]_vars

\* C28 witness: worker 0 queued the REFRESH of one strong result, and then
\* a post-handler answered another strong result of worker 1 itself: only
\* the first REFRESH exists.
C28_Witness ==
    /\ ~read_only
    /\ Len(produced) = 1
    /\ updates_pending[0] = <<1>>
    /\ replies_done = 2
    /\ last_cb.w = 1 /\ last_cb.prob = 1 /\ last_cb.artificial
    /\ last_cb.refresh = 0
    /\ peer_pipe = <<>>

\* A callback has answered a CHECK whose hash the backend found.
FoundAnswered == replies_done > 0 /\ last_cb.prob = 1

\* The last reply went out with ts, prob and value blanked.
RepliedBlank ==
    /\ last_reply.rep.ts = 0
    /\ last_reply.rep.prob = 0
    /\ last_reply.rep.value = 0

\* C29 as stated: with a delay d and a source not in delay_whitelist, a
\* found hash younger than d / 2 is always answered with ts = 0, prob = 0
\* and value = 0.
C29_YoungHashAlwaysBlanked ==
    (FoundAnswered /\ delay # NoDelay /\ ~last_cb.whitelisted
        /\ 2 * last_cb.age < delay) => RepliedBlank

\* C29 amended: with a delay d and a source not in delay_whitelist, a found
\* hash younger than d / 2 is answered with ts = 0, prob = 0 and value = 0
\* unless a post-handler gave an artificial reply, which is never delayed;
\* a hash older than 3d / 2 is never delayed; a source in delay_whitelist,
\* or a worker with no delay configured, never gets a delayed reply.
C29_DelayUnlessArtificial ==
    FoundAnswered =>
        /\ last_reply.delayed = last_cb.delayed
        /\ (delay # NoDelay /\ ~last_cb.whitelisted /\ ~last_cb.artificial
               /\ 2 * last_cb.age < delay)
              => (last_cb.delayed /\ RepliedBlank)
        /\ last_cb.artificial => ~last_cb.delayed
        /\ (delay # NoDelay /\ 2 * last_cb.age > 3 * delay)
              => ~last_cb.delayed
        /\ (last_cb.whitelisted \/ delay = NoDelay) => ~last_cb.delayed

\* C29 witness: a hash found with prob 1 a moment ago is answered blanked
\* to a source outside the whitelist.
C29_Witness ==
    /\ FoundAnswered
    /\ delay = 1 /\ last_cb.age = 0
    /\ ~last_cb.whitelisted /\ ~last_cb.artificial
    /\ last_cb.delayed
    /\ last_reply.found.prob = 1
    /\ RepliedBlank
    /\ stat.delayed = 1

\* What the backend reports for a digest it does not hold, and the reply
\* an encrypted CHECK gets for it (no delay applies: the age of the result
\* is counted from timestamp 0).
MissResult == [value |-> 0, prob |-> 0, flag |-> 0, ts |-> 0]

MissReply == ReplyBody(MissResult, FALSE, TRUE, TRUE, forbidden_ids)

\* The callback answered an encrypted CHECK, without an artificial reply,
\* for a digest found under a flag that is forbidden for the key.
ForbiddenHit ==
    /\ last_cb # NoCb
    /\ ~last_cb.artificial
    /\ last_reply.encrypted
    /\ last_cb.prob > 0
    /\ last_cb.flag \in forbidden_ids

\* C39: the reply to an encrypted CHECK for a digest stored under a flag
\* forbidden for the key equals, in value, prob, flag and ts, the reply the
\* request gets when the digest is not stored, whatever the delay is.
C39_ForbiddenHitLooksLikeMiss ==
    ForbiddenHit => last_reply.rep = MissReply

\* The callback has answered a session's CHECK; the post-handler gave an
\* artificial reply.
Answered == replies_done > 0

PostReplied == Answered /\ last_cb.post \in {"hit", "deny"}

\* What the callback leaves apart from the reply: no delay and no REFRESH
\* after an artificial reply, both as the backend result and the
\* configuration decide after a handler that returned false or failed; the
\* answered session, and no other, has its reply written and the
\* callback's reference released, so that it is destroyed once unless the
\* write watcher holds it.
HandledOnce ==
    /\ last_cb.artificial <=> PostReplied
    /\ last_reply.delayed = last_cb.delayed
    /\ IF PostReplied
       THEN /\ ~last_cb.delayed
            /\ last_cb.refresh = 0
            /\ produced = <<>>
       ELSE /\ last_cb.delayed =
                   DelayApplies(delay, last_cb.whitelisted, last_cb.age,
                                last_cb.j2)
            /\ (last_cb.refresh # 0) = RefreshDue(last_cb.prob, read_only)
            /\ Len(produced) = IF last_cb.refresh # 0 THEN 1 ELSE 0
            /\ last_reply.rep =
                   ReplyBody(last_reply.found, last_cb.delayed,
                             last_reply.encrypted, last_reply.encrypted,
                             forbidden_ids)
            /\ last_reply.found.prob = last_cb.prob
            /\ last_reply.found.flag = last_cb.flag
    /\ Cardinality({i \in 1 .. Len(sessions) :
                       sessions[i].stage # "backend"}) = 1
    /\ \A i \in 1 .. Len(sessions) :
           LET s == sessions[i] IN
           IF s.stage = "backend"
           THEN s.refs = 1 /\ s.destroys = 0
           ELSE /\ s.keyed = last_reply.encrypted
                /\ s.destroys = IF s.stage = "reply_wait" THEN 0 ELSE 1
                /\ s.refs = IF s.stage = "reply_wait" THEN 1 ELSE 0

\* C40 as stated: after a post-handler returned true the reply has the
\* handler's value, prob and flag.
C40_ReplyIsTheHandlers ==
    PostReplied =>
        /\ last_reply.rep.value = PreReplyValue(last_cb.post)
        /\ last_reply.rep.prob = PreReplyProb(last_cb.post)
        /\ last_cb.post_flag # -1 => last_reply.rep.flag = last_cb.post_flag

\* C40 amended: after a post-handler returned true the reply is built from
\* the handler's value and prob and from the handler's flag, or the flag of
\* the backend result when the handler returned none, and is blanked like
\* any other reply when it is encrypted with prob > 0 and that flag is
\* forbidden for the key; it is not delayed, no REFRESH is queued or
\* forwarded, and the session is released once.  After a handler that
\* returned false or failed the backend result is processed as without a
\* post-handler.
C40_PostHandlerReply ==
    Answered =>
        /\ HandledOnce
        /\ PostReplied =>
               LET flag == IF last_cb.post_flag # -1 THEN last_cb.post_flag
                                                    ELSE last_cb.flag
                   blank == /\ last_reply.encrypted
                            /\ PreReplyProb(last_cb.post) > 0
                            /\ flag \in forbidden_ids
               IN  /\ last_reply.rep.value =
                          IF blank THEN 0 ELSE PreReplyValue(last_cb.post)
                   /\ last_reply.rep.prob =
                          IF blank THEN 0 ELSE PreReplyProb(last_cb.post)
                   /\ last_reply.rep.flag = IF blank THEN 0 ELSE flag

\* C40 witness: two sessions wait for the backend and a third was answered
\* by a post-handler that replaced a strong result found a moment ago,
\* under a delay, by a reply with a flag of its own; the reply went out as
\* the handler gave it, nothing was refreshed, and the session is
\* destroyed.
C40_Witness ==
    /\ delay = 1
    /\ Len(sessions) = 3
    /\ PostReplied
    /\ last_cb.post = "hit" /\ last_cb.post_flag = 1 /\ last_cb.flag = 0
    /\ last_cb.prob = 1 /\ last_cb.age = 0
    /\ last_reply.rep.flag = 1 /\ last_reply.rep.prob = 1
    /\ produced = <<>>
    /\ \E i \in 1 .. 3 : sessions[i].stage = "replied"
                           /\ sessions[i].destroys = 1

(***************************************************************************)
(* Properties of replies and statistics.                                   *)
(***************************************************************************)
\* The reply with everything blanked.
BlankReply == [value |-> 0, prob |-> 0, flag |-> 0, ts |-> 0]

\* C13: for an encrypted CHECK made with key K, when the hash the backend
\* found carries a flag in K's forbidden set, the reply before encryption
\* has ts 0, prob 0, value 0 and flag 0, so the forbidden flag never appears
\* in a reply to a client of K, also when the reply is marked as delayed.
C13_ForbiddenFlagBlanked ==
    (/\ last_reply.cmd = "CHECK"
     /\ last_reply.encrypted
     /\ last_reply.found.prob > 0
     /\ last_reply.found.flag \in forbidden_ids) =>
        last_reply.rep = BlankReply

\* C16: for the key and for the per-address statistic under it, matched
\* never exceeds checked.
C16_MatchedAtMostChecked ==
    /\ key_stat.matched <= key_stat.checked
    /\ ip_stat.matched <= ip_stat.checked

\* C16 witness: matching CHECKs were counted for the key and the address,
\* and so was a WRITE answered with prob 1.0 (which counts as added only).
C16_Witness ==
    /\ key_stat.matched >= 1
    /\ ip_stat.matched >= 1
    /\ key_stat.added >= 1
    /\ key_stat.checked = key_stat.matched

\* The step is rspamd_fuzzy_make_reply building a reply.
ReplyStep == replies_done' = replies_done + 1

\* By how much each counter of a key or an address has grown.
StatGrowth(old, new) ==
    [checked |-> new.checked - old.checked,
     matched |-> new.matched - old.matched,
     errors  |-> new.errors - old.errors,
     added   |-> new.added - old.added,
     deleted |-> new.deleted - old.deleted]

\* The one rule of C30 as growth of the counters.
RuleGrowth(cmd, matched, value) ==
    IF ~matched /\ value # 0
    THEN [ZeroStat EXCEPT !.errors = 1]
    ELSE IF cmd = "CHECK"
         THEN [ZeroStat EXCEPT !.checked = 1,
                               !.matched = IF matched THEN 1 ELSE 0]
         ELSE IF cmd = "WRITE" THEN [ZeroStat EXCEPT !.added = 1]
         ELSE IF cmd = "DEL" THEN [ZeroStat EXCEPT !.deleted = 1]
         ELSE ZeroStat

\* C30: a reply to a request with a key changes the key's counters by one
\* rule: errors alone grows by one when the result is no match (prob not
\* above 0.5) and its value is not 0; otherwise a CHECK counts as checked
\* (and as matched exactly when it matched), a WRITE as added, a DEL as
\* deleted, and any other command leaves the counters.  The counters of
\* the address under the key, when the session has them, change by the
\* same rule; a request without a key changes neither.
C30_StatsChangeByOneRule ==
    [][ReplyStep =>
          LET r == last_reply'
              rule == RuleGrowth(r.cmd, 2 * r.found.prob > 1, r.found.value)
          IN  /\ StatGrowth(key_stat, key_stat') =
                     IF r.has_key THEN rule ELSE ZeroStat
              /\ \/ StatGrowth(ip_stat, ip_stat') = ZeroStat
                 \/ r.has_key /\ StatGrowth(ip_stat, ip_stat') = rule
      ]_vars

\* C30 witness: the key and the address under it have counted one error
\* (a reply with value 403 and prob 0) and one DEL.
C30_Witness ==
    /\ key_stat = [ZeroStat EXCEPT !.errors = 1, !.deleted = 1]
    /\ ip_stat = [ZeroStat EXCEPT !.errors = 1, !.deleted = 1]
    /\ last_reply.cmd = "DEL"
    /\ last_reply.found.value = 0

\* The step is a reply to a CHECK made with the key and counted as checked.
CheckCounted ==
    /\ ReplyStep
    /\ last_reply'.cmd = "CHECK"
    /\ key_stat'.checked = key_stat.checked + 1

RetryStep == Len(dgrams') = Len(dgrams) /\ dgrams' # dgrams

BuildStep == Len(dgrams') = Len(dgrams) + 1

\* C35: the statistics are updated and the reply is built once per replied
\* request, in the step that answers it; a retry from the write watcher,
\* whether it sends the reply, defers it again or gives it up, changes no
\* global, per-key or per-IP counter and not the reply, and what is sent in
\* the end is the reply as it was built.
C35_RetriesChangeNoStats ==
    [][/\ RetryStep =>
             /\ UNCHANGED <<stat, key_stat, key_avg, ip_stat, replies_done,
                            last_reply>>
             /\ \A i \in 1 .. Len(dgrams) :
                    /\ dgrams'[i].reply = dgrams[i].reply
                    /\ dgrams'[i].built = dgrams[i].built
       /\ BuildStep =>
             /\ stat'.checked = stat.checked + 1
             /\ replies_done' = replies_done + 1
             /\ dgrams'[Len(dgrams')].built = 1
             /\ dgrams'[Len(dgrams')].reply = last_reply'.rep
             /\ SubSeq(dgrams', 1, Len(dgrams)) = dgrams
       /\ \A i \in 1 .. Len(dgrams') :
              /\ dgrams'[i].built = 1
              /\ dgrams'[i].sent = 1 => dgrams'[i].wire = dgrams'[i].reply
       /\ stat'.checked = Len(dgrams')
      ]_vars

\* C35 witness: two requests were answered, the first reply was deferred
\* and then sent by the watcher, the second is still deferred; the global
\* counter stands at two and the per-key counter of CHECKs at one.
C35_Witness ==
    /\ Len(dgrams) = 2
    /\ dgrams[1].deferred /\ dgrams[1].stage = "replied"
    /\ dgrams[1].wire = dgrams[1].reply /\ dgrams[1].reply.prob = 1
    /\ dgrams[2].deferred /\ dgrams[2].stage = "reply_wait"
    /\ stat.checked = 2 /\ stat.found = 1
    /\ key_stat.checked = 1

(***************************************************************************)
(* Properties of decode failures and of the session lifetime.              *)
(***************************************************************************)
\* The step receives a datagram of an admitted client that does not decode.
InvalidStep ==
    /\ Len(dgrams') = Len(dgrams) + 1
    /\ dgrams'[Len(dgrams')].stage = "invalid"

\* C15: a datagram that fails decoding produces no reply, now or later,
\* increments invalid_requests exactly once, increments the error counter
\* of its source address by one (creating it at 1 on the first error) and
\* no other source's, and changes no key statistics, rate-limit bucket or
\* pending queue.
C15_DecodeFailureOnlyCounts ==
    [][/\ InvalidStep =>
            LET d == dgrams'[Len(dgrams')]
            IN  /\ d.sent = 0
                /\ invalid_requests' = invalid_requests + 1
                /\ \A s \in Sources :
                       errors_ips'[s] = IF s = d.src
                                        THEN errors_ips[s] + 1
                                        ELSE errors_ips[s]
                /\ UNCHANGED <<key_stat, ip_stat, ratelimit_buckets,
                               updates_pending>>
       /\ \A i \in 1 .. Len(dgrams) :
              dgrams[i].stage = "invalid" => dgrams'[i] = dgrams[i]
      ]_vars

\* C15 witness: one source sent two datagrams that did not decode, a third
\* one came without source address.
C15_Witness ==
    /\ \E s \in Sources : errors_ips[s] = 2
    /\ invalid_requests = 3
    /\ \A i \in 1 .. Len(dgrams) : dgrams[i].sent = 0

\* The session waits for the backend's answer or for the socket to become
\* writable.
Waiting(s) == s.stage \in {"backend", "reply_wait"}

\* C17 as stated: while a session has an outstanding backend check callback
\* or a reply write deferred by EAGAIN, its reference count is greater
\* than 1.
C17_RefsAboveOneWhileWaiting ==
    \A i \in 1 .. Len(sessions) : Waiting(sessions[i]) => sessions[i].refs > 1

\* C17 amended: while a session has an outstanding backend check callback or
\* a deferred reply write, its reference count is at least 1 and the session
\* is not freed (the handler that started the wait has released its own
\* reference, which leaves exactly the one of the callback or watcher); a
\* session is freed exactly when its count is 0.
C17_HeldWhileWaiting ==
    \A i \in 1 .. Len(sessions) :
        /\ Waiting(sessions[i]) =>
               (sessions[i].refs >= 1 /\ ~sessions[i].freed)
        /\ sessions[i].freed <=> sessions[i].refs = 0

\* C17 witness: one session waits for the backend, another for the socket,
\* each with a single reference.
C17_Witness ==
    \E i, j \in 1 .. Len(sessions) :
        /\ sessions[i].stage = "backend" /\ sessions[i].refs = 1
        /\ sessions[j].stage = "reply_wait" /\ sessions[j].refs = 1

\* C34: a session is destroyed at most once, it is destroyed exactly when
\* its reference count has reached 0, and that happens only when neither a
\* backend check callback nor a deferred reply watcher refers to it any
\* more: while one does, the count is at least 1 and the session has not
\* been destroyed; once the receive loop has released it and none does,
\* it has been destroyed once.
C34_DestroyedOnceAfterLastRelease ==
    \A i \in 1 .. Len(sessions) :
        LET s == sessions[i] IN
        /\ s.destroys <= 1
        /\ s.destroys = 1 <=> s.refs = 0
        /\ Waiting(s) => (s.refs >= 1 /\ s.destroys = 0)
        /\ ~Waiting(s) => s.destroys = 1

\* C34 witness: one session was destroyed once after its reply had first
\* been deferred and then sent, another is still held by the backend
\* callback, a third by the reply watcher.
C34_Witness ==
    /\ Len(sessions) = 3
    /\ sessions[1].stage = "replied" /\ sessions[1].deferred
    /\ sessions[1].destroys = 1
    /\ sessions[2].stage = "backend" /\ sessions[2].destroys = 0
    /\ sessions[3].stage = "reply_wait" /\ sessions[3].destroys = 0

\* C36: a session whose last send failed with EAGAIN, EWOULDBLOCK or EINTR
\* is kept for a retry by the write watcher; when the socket becomes
\* writable and a send succeeds, or a retry fails for good, the session is
\* released and destroyed, with the reply sent in the first case; a session
\* whose send failed with another error is not kept for a retry and has
\* been released and destroyed.
C36_DeferredReplyIsSentAndReleased ==
    /\ [](\A i \in 1 .. Len(sessions) :
            LET s == sessions[i] IN
            /\ s.errno = "again" =>
                   (s.stage = "reply_wait" /\ s.refs = 1 /\ ~s.freed)
            /\ s.errno = "error" =>
                   (s.stage = "reply_failed" /\ s.refs = 0 /\ s.freed)
            /\ s.errno = "ok" =>
                   (s.stage = "replied" /\ s.refs = 0 /\ s.freed))
    /\ \A i \in 1 .. MaxSess :
           (i <= Len(sessions) /\ sessions[i].errno = "again")
               ~> (/\ i <= Len(sessions)
                   /\ sessions[i].errno \in {"ok", "error"}
                   /\ sessions[i].freed)

\* C36 witness: a reply deferred by EAGAIN was sent by the watcher and its
\* session released, another session was released after a first send that
\* failed for good, a third is waiting for the socket.
C36_Witness ==
    /\ Len(sessions) = 3
    /\ sessions[1].deferred /\ sessions[1].errno = "ok"
    /\ sessions[1].freed /\ sessions[1].destroys = 1
    /\ ~sessions[2].deferred /\ sessions[2].errno = "error"
    /\ sessions[2].freed
    /\ sessions[3].errno = "again" /\ ~sessions[3].freed

\* C18: on every path that destroys a session (after a synchronous reply,
\* after the backend callback, after a deferred write, after a decode
\* failure) the shared secret nm is zero when the session memory is freed.
C18_SecretWipedBeforeFree ==
    \A i \in 1 .. Len(sessions) :
        sessions[i].freed => sessions[i].nm = "zero"

\* C18 witness: a session that held a shared secret was destroyed after a
\* decode failure, another after its reply was sent, another after its
\* reply was given up.
C18_Witness ==
    \E i, j, k \in 1 .. Len(sessions) :
        /\ sessions[i].keyed /\ sessions[i].freed
        /\ sessions[i].stage = "invalid"
        /\ sessions[j].keyed /\ sessions[j].freed
        /\ sessions[j].stage = "replied"
        /\ sessions[k].keyed /\ sessions[k].freed
        /\ sessions[k].stage = "reply_failed"

=============================================================================
